---- MODULE Spec2Model ----
(***************************************************************************)
(* State-machine model of the session-auth gate, the login view and the    *)
(* Coach booking/availability engine of the sports marketplace.            *)
(* Tables are functions whose DOMAIN is the set of stored primary keys.    *)
(***************************************************************************)
EXTENDS Integers, Sequences, FiniteSets, Bags, TLC

\* ---------------------------------------------------------------- bounds
MaxDay == 1

\* ---------------------------------------------------------------- universe
UserIds == {"u1", "u2", "u3"}
GhostId == "ghost"
Clients == {"c1", "c2"}
CoachIds == {"k1"}
None == "None"
Dates == 0..MaxDay
\* Hours of day a request can name (enough for endTime <= startTime to occur).
Times == {9, 10}
Methods == {"GET", "POST", "DELETE"}
Passwords == {"pw1", "pw2"}
SessionKeys == {"user_id", "email", "nama", "kelamin", "tanggal_lahir", "nomor_handphone"}

\* A parsed request field: <<>> when the parser gave None, <<v>> for a value v.
Opt(S) == {<<>>} \cup {<<v>> : v \in S}

\* A client with no request in progress.
IdleReq == [op |-> "idle"]

VARIABLES users, session, coaches, today, inflight, resp,
          slots, events, registrations, participants, courts

vars == <<users, session, coaches, today, inflight, resp,
          slots, events, registrations, participants, courts>>

\* The tables of the Court, Event and Sport_Partner apps.
otherApps == <<slots, events, registrations, participants, courts>>

\* No Court, TimeSlot, Event, EventRegistration or PostParticipants row is stored.
OtherAppsEmpty ==
    /\ courts = {}
    /\ slots = {}
    /\ events = <<>>
    /\ registrations = EmptyBag
    /\ participants = EmptyBag

\* ---------------------------------------------------------------- user store
\* make_password: a salted hash, never the plaintext itself.
make_password(p) == <<"pbkdf2_sha256", p>>

\* Variant that accepts every password.
check_password_AcceptsAll(p, encoded) == TRUE

check_password(p, encoded) == encoded = make_password(p)

EmailOf(u) == <<u, "@example.com">>

\* A row of Auth_Profile.User (the fields the views read).
UserRow(u, p) == [email |-> EmailOf(u), username |-> u, password |-> make_password(p)]

\* ---------------------------------------------------------------- sessions
\* request.session is a key/value store; a value u under key k stands for
\* "field k of user u" (user_id itself for the key user_id).
Anonymous == [k \in {} |-> None]

\* What the tests' manual_login leaves in the session: user_id only.
ManualSession(u) == [k \in {"user_id"} |-> u]

\* request.session.flush(): every key is removed.
Flushed == Anonymous

\* The session of client c names a stored user.
Resolves(c) == "user_id" \in DOMAIN session[c] /\ session[c]["user_id"] \in DOMAIN users

\* request.session['user_id'] of client c.
Actor(c) == session[c]["user_id"]

\* ---------------------------------------------------------------- Coach model
\* Coach.clean, run by full_clean; the validators of the fields no view of
\* the booking engine assigns are satisfied by every stored row.
\* Variant of clean that accepts a date before the current one.
CleanOk_AnyDate(obj, now) ==
    /\ ~(obj.endTime <= obj.startTime)
    /\ ~(obj.peserta # None /\ obj.peserta = obj.user)

CleanOk(obj, now) ==
    /\ ~(obj.endTime <= obj.startTime)
    /\ ~(obj.date < now)
    /\ ~(obj.peserta # None /\ obj.peserta = obj.user)

\* Coach.save: full_clean, then the row is written with every field of the
\* instance (an UPDATE of all columns, or an INSERT when no row has the pk).
SaveOk(obj) == CleanOk(obj, today)

\* Variant of the write that records the coach's owner as its booker.
Stored_OwnerAsBooker(pk, obj) ==
    [k \in (DOMAIN coaches) \cup {pk} |->
        IF k = pk THEN [obj EXCEPT !.peserta = obj.user] ELSE coaches[k]]

Stored(pk, obj) == [k \in (DOMAIN coaches) \cup {pk} |-> IF k = pk THEN obj ELSE coaches[k]]

Deleted(pk) == [k \in (DOMAIN coaches) \ {pk} |-> coaches[k]]

\* ---------------------------------------------------------------- responses
NoResp == [op |-> "none", c |-> "none", pk |-> "none", status |-> 0, msg |-> "none"]

Reply(op, c, pk, status, msg) ==
    resp' = [op |-> op, c |-> c, pk |-> pk, status |-> status, msg |-> msg]

\* ---------------------------------------------------------------- auth gate (Coach)
\* Variant of custom_login_required that trusts the session without a lookup.
LoginGate_NoLookup(s, xhr) ==
    IF "user_id" \notin DOMAIN s
    THEN [user |-> None, status |-> IF xhr THEN 401 ELSE 302, flush |-> FALSE]
    ELSE [user |-> s["user_id"], status |-> 0, flush |-> FALSE]

\* custom_login_required: status 0 lets the view run as g.user.
LoginGate(s, xhr) ==
    IF "user_id" \notin DOMAIN s
    THEN [user |-> None, status |-> IF xhr THEN 401 ELSE 302, flush |-> FALSE]
    ELSE IF s["user_id"] \notin DOMAIN users
         THEN [user |-> None, status |-> 302, flush |-> TRUE]
         ELSE [user |-> s["user_id"], status |-> 0, flush |-> FALSE]

\* The wrapper's answer when the view is not entered.
GateReject(op, c, pk, g) ==
    /\ session' = IF g.flush THEN [session EXCEPT ![c] = Flushed] ELSE session
    /\ Reply(op, c, pk, g.status, "Please login first")
    /\ UNCHANGED coaches

\* require_http_methods: 405 for any other method.
MethodReject(op, c, pk) ==
    /\ Reply(op, c, pk, 405, "Method Not Allowed")
    /\ UNCHANGED <<session, coaches>>

\* ---------------------------------------------------------------- Coach views
\* What a view has decided once it has loaded the row and run its checks:
\* an immediate answer, or an instance to save() with the answers for a
\* save that passes and for one that raises.
Answer(status, msg) == [kind |-> "answer", status |-> status, msg |-> msg]

DoSave(obj, msg, errStatus, errMsg) ==
    [kind |-> "save", obj |-> obj, status |-> 200, msg |-> msg,
     errStatus |-> errStatus, errMsg |-> errMsg]

DoDelete(msg) == [kind |-> "delete", status |-> 200, msg |-> msg]

\* add_coach up to new_coach.save(): input validation, then the new instance.
AddCoachPlan(user, price, date, startTime, endTime, ratingOk) ==
    IF price = <<>> THEN Answer(400, "Invalid price")
    ELSE IF date = <<>> THEN Answer(400, "Invalid date")
    ELSE IF startTime = <<>> \/ endTime = <<>> THEN Answer(400, "Invalid time")
    ELSE IF endTime[1] <= startTime[1]
         THEN Answer(400, "End time must be after start time")
    ELSE IF ~ratingOk THEN Answer(400, "Rating must be between 0 and 5")
    ELSE DoSave([user |-> user, peserta |-> None, isBooked |-> FALSE, date |-> date[1],
                 startTime |-> startTime[1], endTime |-> endTime[1]],
                "Coach created successfully!", 500, "ValidationError")

\* The instance update_coach builds from the stored row and the POST fields.
UpdatedObj(row, date, startTime, endTime) ==
    [row EXCEPT !.date = IF date = <<>> THEN row.date ELSE date[1],
                !.startTime = IF startTime = <<>> THEN row.startTime ELSE startTime[1],
                !.endTime = IF endTime = <<>> THEN row.endTime ELSE endTime[1]]

\* update_coach up to coach.save() (all of it inside try/except Exception -> 500).
UpdateCoachPlan(table, pk, user, date, startTime, endTime) ==
    IF pk \notin DOMAIN table THEN Answer(500, "No Coach matches the given query.")
    ELSE IF table[pk].user # user THEN Answer(403, "Forbidden")
    ELSE DoSave(UpdatedObj(table[pk], date, startTime, endTime),
                "Coach updated successfully!", 500, "ValidationError")

\* Variant of book_coach without the isBooked check.
BookCoachPlan_NoBookedCheck(table, pk, user) ==
    IF pk \notin DOMAIN table THEN Answer(404, "Not Found")
    ELSE IF table[pk].user = user THEN Answer(400, "Cannot book your own coach")
    ELSE DoSave([table[pk] EXCEPT !.peserta = user, !.isBooked = TRUE],
                "Booking successful!", 400, "ValidationError")

\* Variant of book_coach that tests isBooked before the owner.
BookCoachPlan_BookedFirst(table, pk, user) ==
    IF pk \notin DOMAIN table THEN Answer(404, "Not Found")
    ELSE IF table[pk].isBooked THEN Answer(400, "Coach already booked")
    ELSE IF table[pk].user = user THEN Answer(400, "Cannot book your own coach")
    ELSE DoSave([table[pk] EXCEPT !.peserta = user, !.isBooked = TRUE],
                "Booking successful!", 400, "ValidationError")

\* book_coach up to coach.save().
BookCoachPlan(table, pk, user) ==
    IF pk \notin DOMAIN table THEN Answer(404, "Not Found")
    ELSE IF table[pk].user = user THEN Answer(400, "Cannot book your own coach")
    ELSE IF table[pk].isBooked THEN Answer(400, "Coach already booked")
    ELSE DoSave([table[pk] EXCEPT !.peserta = user, !.isBooked = TRUE],
                "Booking successful!", 400, "ValidationError")

\* Variant of cancel_booking that resets the flag and keeps the booker.
CancelBookingPlan_KeepsBooker(table, pk, user) ==
    IF pk \notin DOMAIN table THEN Answer(404, "Not Found")
    ELSE IF table[pk].peserta # user THEN Answer(403, "Forbidden")
    ELSE DoSave([table[pk] EXCEPT !.isBooked = FALSE],
                "Booking cancelled successfully", 500, "Error: ValidationError")

\* cancel_booking up to coach.save().
CancelBookingPlan(table, pk, user) ==
    IF pk \notin DOMAIN table THEN Answer(404, "Not Found")
    ELSE IF table[pk].peserta # user THEN Answer(403, "Forbidden")
    ELSE DoSave([table[pk] EXCEPT !.peserta = None, !.isBooked = FALSE],
                "Booking cancelled successfully", 500, "Error: ValidationError")

\* Variant of mark_available that also lets the current booker through.
MarkAvailablePlan_BookerAllowed(table, pk, user) ==
    IF pk \notin DOMAIN table THEN Answer(500, "No Coach matches the given query.")
    ELSE IF table[pk].user # user /\ table[pk].peserta # user
         THEN Answer(403, "You do not have permission to modify this coach")
    ELSE DoSave([table[pk] EXCEPT !.isBooked = FALSE, !.peserta = None],
                "Coach marked as available", 500, "ValidationError")

\* mark_available up to coach.save() (inside try/except Exception -> 500).
MarkAvailablePlan(table, pk, user) ==
    IF pk \notin DOMAIN table THEN Answer(500, "No Coach matches the given query.")
    ELSE IF table[pk].user # user
         THEN Answer(403, "You do not have permission to modify this coach")
    ELSE DoSave([table[pk] EXCEPT !.isBooked = FALSE, !.peserta = None],
                "Coach marked as available", 500, "ValidationError")

\* mark_unavailable up to coach.save() (inside try/except Exception -> 500).
MarkUnavailablePlan(table, pk, user) ==
    IF pk \notin DOMAIN table THEN Answer(500, "No Coach matches the given query.")
    ELSE IF table[pk].user # user
         THEN Answer(403, "You do not have permission to modify this coach")
    ELSE DoSave([table[pk] EXCEPT !.isBooked = TRUE],
                "Coach marked as unavailable", 500, "ValidationError")

\* delete_coach up to coach.delete() (inside try/except Exception -> 500).
DeleteCoachPlan(table, pk, user) ==
    IF pk \notin DOMAIN table THEN Answer(500, "No Coach matches the given query.")
    ELSE IF table[pk].user # user
         THEN Answer(403, "You do not have permission to delete this coach")
    ELSE DoDelete("Coach deleted successfully")

\* The rest of a view: save() or delete() and the JsonResponse.
Finish(op, c, pk, plan) ==
    /\ UNCHANGED session
    /\ IF plan.kind = "answer" THEN
           Reply(op, c, pk, plan.status, plan.msg) /\ UNCHANGED coaches
       ELSE IF plan.kind = "delete" THEN
           coaches' = Deleted(pk) /\ Reply(op, c, pk, plan.status, plan.msg)
       ELSE IF SaveOk(plan.obj) THEN
           coaches' = Stored(pk, plan.obj) /\ Reply(op, c, pk, plan.status, plan.msg)
       ELSE Reply(op, c, pk, plan.errStatus, plan.errMsg) /\ UNCHANGED coaches

\* The method each decorated Coach endpoint accepts (require_http_methods).
AllowedMethod(op) == IF op = "delete_coach" THEN "DELETE" ELSE "POST"

\* ---------------------------------------------------------------- requests
\* One request = csrf_exempt(custom_login_required(require_http_methods(view))).
AddCoach(c, method) ==
    /\ UNCHANGED <<users, today, inflight, otherApps>>
    /\ \E pk \in CoachIds \ DOMAIN coaches :
         LET g == LoginGate(session[c], TRUE) IN
         IF g.status # 0
         THEN \E xhr \in BOOLEAN : GateReject("add_coach", c, pk, LoginGate(session[c], xhr))
         ELSE IF method # AllowedMethod("add_coach") THEN MethodReject("add_coach", c, pk)
         ELSE \E price \in Opt({1}), date \in Opt(Dates),
                 startTime \in Opt(Times), endTime \in Opt(Times),
                 ratingOk \in BOOLEAN :
                Finish("add_coach", c, pk,
                       AddCoachPlan(g.user, price, date, startTime, endTime, ratingOk))

UpdateCoach(c, pk, method) ==
    /\ UNCHANGED <<users, today, inflight, otherApps>>
    /\ LET g == LoginGate(session[c], TRUE) IN
       IF g.status # 0
       THEN \E xhr \in BOOLEAN : GateReject("update_coach", c, pk, LoginGate(session[c], xhr))
       ELSE IF method # AllowedMethod("update_coach") THEN MethodReject("update_coach", c, pk)
       ELSE \E date \in Opt(Dates),
               startTime \in Opt(Times), endTime \in Opt(Times) :
              Finish("update_coach", c, pk,
                     UpdateCoachPlan(coaches, pk, g.user, date, startTime, endTime))

BookCoach(c, pk, method) ==
    /\ UNCHANGED <<users, today, inflight, otherApps>>
    /\ LET g == LoginGate(session[c], TRUE) IN
       IF g.status # 0
       THEN \E xhr \in BOOLEAN : GateReject("book_coach", c, pk, LoginGate(session[c], xhr))
       ELSE IF method # AllowedMethod("book_coach") THEN MethodReject("book_coach", c, pk)
       ELSE Finish("book_coach", c, pk, BookCoachPlan(coaches, pk, g.user))

CancelBooking(c, pk, method) ==
    /\ UNCHANGED <<users, today, inflight, otherApps>>
    /\ LET g == LoginGate(session[c], TRUE) IN
       IF g.status # 0
       THEN \E xhr \in BOOLEAN : GateReject("cancel_booking", c, pk, LoginGate(session[c], xhr))
       ELSE IF method # AllowedMethod("cancel_booking") THEN MethodReject("cancel_booking", c, pk)
       ELSE Finish("cancel_booking", c, pk, CancelBookingPlan(coaches, pk, g.user))

MarkAvailable(c, pk, method) ==
    /\ UNCHANGED <<users, today, inflight, otherApps>>
    /\ LET g == LoginGate(session[c], TRUE) IN
       IF g.status # 0
       THEN \E xhr \in BOOLEAN : GateReject("mark_available", c, pk, LoginGate(session[c], xhr))
       ELSE IF method # AllowedMethod("mark_available") THEN MethodReject("mark_available", c, pk)
       ELSE Finish("mark_available", c, pk, MarkAvailablePlan(coaches, pk, g.user))

MarkUnavailable(c, pk, method) ==
    /\ UNCHANGED <<users, today, inflight, otherApps>>
    /\ LET g == LoginGate(session[c], TRUE) IN
       IF g.status # 0
       THEN \E xhr \in BOOLEAN : GateReject("mark_unavailable", c, pk, LoginGate(session[c], xhr))
       ELSE IF method # AllowedMethod("mark_unavailable") THEN MethodReject("mark_unavailable", c, pk)
       ELSE Finish("mark_unavailable", c, pk, MarkUnavailablePlan(coaches, pk, g.user))

DeleteCoach(c, pk, method) ==
    /\ UNCHANGED <<users, today, inflight, otherApps>>
    /\ LET g == LoginGate(session[c], TRUE) IN
       IF g.status # 0
       THEN \E xhr \in BOOLEAN : GateReject("delete_coach", c, pk, LoginGate(session[c], xhr))
       ELSE IF method # AllowedMethod("delete_coach") THEN MethodReject("delete_coach", c, pk)
       ELSE Finish("delete_coach", c, pk, DeleteCoachPlan(coaches, pk, g.user))

\* timezone.now().date() moves on: the current date is read at every save.
Tick ==
    /\ today < MaxDay
    /\ today' = today + 1
    /\ UNCHANGED <<users, session, coaches, inflight, resp, otherApps>>

\* ---------------------------------------------------------------- specification
\* Every client holds a session: none, one whose user_id resolves to no row,
\* or that of a stored user; no coach is stored yet.
Init ==
    /\ users = [u \in UserIds |-> UserRow(u, "pw1")]
    /\ session \in [Clients -> {Anonymous, ManualSession(GhostId)}
                               \cup {ManualSession(u) : u \in UserIds}]
    /\ coaches = [k \in {} |-> None]
    /\ today = 0
    /\ inflight = [c \in Clients |-> IdleReq]
    /\ resp = NoResp
    /\ OtherAppsEmpty

Next ==
    \/ \E c \in Clients, m \in Methods : AddCoach(c, m)
    \/ \E c \in Clients, pk \in CoachIds, m \in Methods : UpdateCoach(c, pk, m)
    \/ \E c \in Clients, pk \in CoachIds, m \in Methods : BookCoach(c, pk, m)
    \/ \E c \in Clients, pk \in CoachIds, m \in Methods : CancelBooking(c, pk, m)
    \/ \E c \in Clients, pk \in CoachIds, m \in Methods : MarkAvailable(c, pk, m)
    \/ \E c \in Clients, pk \in CoachIds, m \in Methods : MarkUnavailable(c, pk, m)
    \/ \E c \in Clients, pk \in CoachIds, m \in Methods : DeleteCoach(c, pk, m)
    \/ Tick

Spec == Init /\ [][Next]_vars

\* The sessions of the booking tests: the coach's user and another user are
\* both logged in.
InitBooking ==
    /\ users = [u \in UserIds |-> UserRow(u, "pw1")]
    /\ session = [c \in Clients |-> ManualSession(IF c = "c1" THEN "u1" ELSE "u2")]
    /\ coaches = [k \in {} |-> None]
    /\ today = 0
    /\ inflight = [c \in Clients |-> IdleReq]
    /\ resp = NoResp
    /\ OtherAppsEmpty

SpecBooking == InitBooking /\ [][Next]_vars

\* ---------------------------------------------------------------- overlapping requests
\* Each request is served by its own worker: it loads the row and runs its
\* checks (Begin*), and later saves the instance it holds in memory (Commit).
\* No view opens a transaction or locks the row, so other requests run between.
Pending(op, pk, plan) == [op |-> op, pk |-> pk, plan |-> plan]

\* What a finished worker returned; found is the stored row's booker at the
\* moment of the write (None when the row was free or gone).
Done(op, pk, status, found) ==
    [op |-> "done", req |-> op, pk |-> pk, status |-> status, found |-> found]

Free(c) == inflight[c].op \in {"idle", "done"}

\* The part of a decorated view up to save(): the wrapper, the load, the checks.
Begin(op, c, pk, method, plan) ==
    /\ Free(c)
    /\ UNCHANGED <<users, today, otherApps>>
    /\ LET g == LoginGate(session[c], TRUE) IN
       IF g.status # 0 THEN
           /\ \E xhr \in BOOLEAN : GateReject(op, c, pk, LoginGate(session[c], xhr))
           /\ inflight' = [inflight EXCEPT ![c] = Done(op, pk, resp'.status, None)]
       ELSE IF method # AllowedMethod(op) THEN
           /\ MethodReject(op, c, pk)
           /\ inflight' = [inflight EXCEPT ![c] = Done(op, pk, 405, None)]
       ELSE IF plan.kind = "answer" THEN
           /\ Reply(op, c, pk, plan.status, plan.msg)
           /\ inflight' = [inflight EXCEPT ![c] = Done(op, pk, plan.status, None)]
           /\ UNCHANGED <<session, coaches>>
       ELSE
           /\ inflight' = [inflight EXCEPT ![c] = Pending(op, pk, plan)]
           /\ UNCHANGED <<session, coaches, resp>>

BeginBook(c, pk, method) ==
    Begin("book_coach", c, pk, method, BookCoachPlan(coaches, pk, Actor(c)))

BeginCancel(c, pk, method) ==
    Begin("cancel_booking", c, pk, method, CancelBookingPlan(coaches, pk, Actor(c)))

BeginMarkAvailable(c, pk, method) ==
    Begin("mark_available", c, pk, method, MarkAvailablePlan(coaches, pk, Actor(c)))

BeginMarkUnavailable(c, pk, method) ==
    Begin("mark_unavailable", c, pk, method, MarkUnavailablePlan(coaches, pk, Actor(c)))

\* The booker the stored row holds (None for a free or missing row).
Booker(pk) ==
    IF pk \in DOMAIN coaches /\ coaches[pk].isBooked THEN coaches[pk].peserta ELSE None

\* Variant of save() that writes only if the stored row still has the
\* isBooked value the instance was loaded with.
CommitIfUnchanged(c) ==
    LET r == inflight[c] IN
    /\ r.op \notin {"idle", "done"}
    /\ UNCHANGED <<users, today, session, otherApps>>
    /\ IF SaveOk(r.plan.obj) /\ r.pk \in DOMAIN coaches
          /\ coaches[r.pk].isBooked = ~r.plan.obj.isBooked
       THEN /\ coaches' = Stored(r.pk, r.plan.obj)
            /\ Reply(r.op, c, r.pk, r.plan.status, r.plan.msg)
            /\ inflight' = [inflight EXCEPT ![c] =
                               Done(r.op, r.pk, r.plan.status, Booker(r.pk))]
       ELSE /\ Reply(r.op, c, r.pk, r.plan.errStatus, r.plan.errMsg)
            /\ inflight' = [inflight EXCEPT ![c] =
                               Done(r.op, r.pk, r.plan.errStatus, Booker(r.pk))]
            /\ UNCHANGED coaches

\* coach.save() of the instance loaded earlier, and the JsonResponse: the
\* date is validated against the current day, every column is written.
Commit(c) ==
    LET r == inflight[c] IN
    /\ r.op \notin {"idle", "done"}
    /\ UNCHANGED <<users, today, session, otherApps>>
    /\ IF SaveOk(r.plan.obj)
       THEN /\ coaches' = Stored(r.pk, r.plan.obj)
            /\ Reply(r.op, c, r.pk, r.plan.status, r.plan.msg)
            /\ inflight' = [inflight EXCEPT ![c] =
                               Done(r.op, r.pk, r.plan.status, Booker(r.pk))]
       ELSE /\ Reply(r.op, c, r.pk, r.plan.errStatus, r.plan.errMsg)
            /\ inflight' = [inflight EXCEPT ![c] =
                               Done(r.op, r.pk, r.plan.errStatus, Booker(r.pk))]
            /\ UNCHANGED coaches

\* A coach as add_coach stores it.
NewCoach(user, date) ==
    [user |-> user, peserta |-> None, isBooked |-> FALSE, date |-> date,
     startTime |-> 9, endTime |-> 10]

\* One coach of u1 is on offer; the two clients are logged in as different users.
InitConc ==
    /\ users = [u \in UserIds |-> UserRow(u, "pw1")]
    /\ session \in {s \in [Clients -> {ManualSession(u) : u \in UserIds}] :
                        \A c, d \in Clients : c # d => s[c] # s[d]}
    /\ \E d \in Dates : coaches = [k \in CoachIds |-> NewCoach("u1", d)]
    /\ today = 0
    /\ inflight = [c \in Clients |-> IdleReq]
    /\ resp = NoResp
    /\ OtherAppsEmpty

NextConc ==
    \/ \E c \in Clients, pk \in CoachIds, m \in Methods : BeginBook(c, pk, m)
    \/ \E c \in Clients, pk \in CoachIds, m \in Methods : BeginCancel(c, pk, m)
    \/ \E c \in Clients, pk \in CoachIds, m \in Methods : BeginMarkAvailable(c, pk, m)
    \/ \E c \in Clients, pk \in CoachIds, m \in Methods : BeginMarkUnavailable(c, pk, m)
    \/ \E c \in Clients : Commit(c)
    \/ Tick

SpecConc == InitConc /\ [][NextConc]_vars

\* The owner's update_coach among the overlapping requests; the request
\* carries a date or none and leaves the times as stored.
BeginUpdate(c, pk, method, date) ==
    Begin("update_coach", c, pk, method,
          UpdateCoachPlan(coaches, pk, Actor(c), date, <<>>, <<>>))

\* No coach is stored; the first client is u1, the second u2, so that either
\* can add the coach and the other book it.
InitConcAll ==
    /\ users = [u \in UserIds |-> UserRow(u, "pw1")]
    /\ session = [c \in Clients |-> ManualSession(IF c = "c1" THEN "u1" ELSE "u2")]
    /\ coaches = [k \in {} |-> None]
    /\ today = 0
    /\ inflight = [c \in Clients |-> IdleReq]
    /\ resp = NoResp
    /\ OtherAppsEmpty

\* add_coach inserts a new row and is taken in one step; every view that
\* loads a row and saves it is taken in two.
NextConcAll ==
    \/ \E c \in Clients, m \in Methods : AddCoach(c, m)
    \/ \E c \in Clients, pk \in CoachIds, m \in Methods, date \in Opt(Dates) :
          BeginUpdate(c, pk, m, date)
    \/ \E c \in Clients, pk \in CoachIds, m \in Methods : BeginBook(c, pk, m)
    \/ \E c \in Clients, pk \in CoachIds, m \in Methods : BeginCancel(c, pk, m)
    \/ \E c \in Clients, pk \in CoachIds, m \in Methods : BeginMarkAvailable(c, pk, m)
    \/ \E c \in Clients, pk \in CoachIds, m \in Methods : BeginMarkUnavailable(c, pk, m)
    \/ \E c \in Clients : Commit(c)
    \/ Tick

SpecConcAll == InitConcAll /\ [][NextConcAll]_vars

\* ---------------------------------------------------------------- pages and login
\* A view that touches no coach row.
PageReply(op, c, status, msg) ==
    /\ Reply(op, c, "none", status, msg)
    /\ UNCHANGED <<users, coaches, today, inflight, otherApps>>

\* The gate homepage_view and profile_display_view open with, then the render.
AuthProfilePage(op, c) ==
    IF "user_id" \notin DOMAIN session[c] THEN
        PageReply(op, c, 302, "redirect login") /\ UNCHANGED session
    ELSE IF Actor(c) \notin DOMAIN users THEN
        /\ session' = [session EXCEPT ![c] = Flushed]
        /\ PageReply(op, c, 302, "redirect login")
    ELSE PageReply(op, c, 200, "rendered") /\ UNCHANGED session

HomepageView(c) == AuthProfilePage("homepage_view", c)

ProfileDisplayView(c) == AuthProfilePage("profile_display_view", c)

\* create_coach_page: custom_login_required, then the render.
CreateCoachPage(c) ==
    LET g == LoginGate(session[c], TRUE) IN
    IF g.status # 0
    THEN /\ \E xhr \in BOOLEAN :
              GateReject("create_coach_page", c, "none", LoginGate(session[c], xhr))
         /\ UNCHANGED <<users, today, inflight, otherApps>>
    ELSE PageReply("create_coach_page", c, 200, "rendered") /\ UNCHANGED session

\* _get_current_user of Coach/views.py and of Court/views.py: the user the
\* session names, or None; the session is left as it is.
CurrentUser(s) ==
    IF "user_id" \notin DOMAIN s THEN None
    ELSE IF s["user_id"] \notin DOMAIN users THEN None
    ELSE s["user_id"]

\* _require_user: the user, or the status of the error response.
RequireUser(s, json_mode) ==
    LET user == CurrentUser(s) IN
    IF user # None THEN [user |-> user, status |-> 0]
    ELSE [user |-> None, status |-> IF json_mode THEN 401 ELSE 302]

\* show_main of Coach and of Court: _require_user, then the render.
RequireUserPage(op, c, json_mode) ==
    LET r == RequireUser(session[c], json_mode) IN
    /\ UNCHANGED session
    /\ IF r.status # 0
       THEN PageReply(op, c, r.status,
                      IF json_mode THEN "Authentication required" ELSE "redirect login")
       ELSE PageReply(op, c, 200, "rendered")

CoachShowMain(c) == RequireUserPage("coach.show_main", c, FALSE)

CourtShowMain(c) == RequireUserPage("court.show_main", c, FALSE)

\* get_all_Court: require_http_methods(["GET"]), _require_user in JSON mode,
\* then the list of courts.
GetAllCourt(c, method) ==
    IF method # "GET"
    THEN PageReply("court.get_all_Court", c, 405, "Method Not Allowed") /\ UNCHANGED session
    ELSE RequireUserPage("court.get_all_Court", c, TRUE)

\* show_post of Sport_Partner: User.objects.get is not guarded, so a user_id
\* that names no row raises User.DoesNotExist out of the view.
ShowPost(c) ==
    /\ UNCHANGED session
    /\ IF "user_id" \notin DOMAIN session[c] THEN
           PageReply("show_post", c, 302, "redirect login")
       ELSE IF Actor(c) \notin DOMAIN users THEN
           PageReply("show_post", c, 500, "raised User.DoesNotExist")
       ELSE PageReply("show_post", c, 200, "rendered")

\* User.objects.get(email=email): the ids of the rows with that email.
UsersByEmail(email) == {u \in DOMAIN users : users[u].email = email}

\* login_view. body is <<>> for a body json.loads rejects, else <<data>> with
\* data.email and data.password each <<>> (absent) or <<value>>.
LoginView(c, method, body) ==
    IF method # "POST" THEN
        PageReply("login_view", c, 200, "rendered") /\ UNCHANGED session
    ELSE IF body = <<>> THEN
        PageReply("login_view", c, 500, "raised JSONDecodeError") /\ UNCHANGED session
    ELSE LET email == body[1].email
             password == body[1].password
         IN IF email = <<>> \/ password = <<>> THEN
                PageReply("login_view", c, 200, "Email dan password harus diisi")
                /\ UNCHANGED session
            ELSE IF UsersByEmail(email[1]) = {} THEN
                PageReply("login_view", c, 200, "Email atau password salah")
                /\ UNCHANGED session
            ELSE LET user == CHOOSE u \in UsersByEmail(email[1]) : TRUE IN
                 IF check_password(password[1], users[user].password) THEN
                     \* auth.login(request, user): the module binds no name
                     \* auth, so the statement raises NameError before any
                     \* session key is written.
                     PageReply("login_view", c, 500, "raised NameError")
                     /\ UNCHANGED session
                 ELSE
                     PageReply("login_view", c, 200, "Email atau password salah")
                     /\ UNCHANGED session

\* logout_view: flush, redirect.
LogoutView(c) ==
    /\ session' = [session EXCEPT ![c] = Flushed]
    /\ PageReply("logout_view", c, 302, "redirect login")

\* The bodies a login request can carry.
LoginBodies ==
    {<<>>} \cup {<<[email |-> e, password |-> p]>> :
                    e \in Opt({EmailOf(u) : u \in UserIds \cup {GhostId}}),
                    p \in Opt(Passwords)}

NextAuth ==
    \/ \E c \in Clients : HomepageView(c)
    \/ \E c \in Clients : ProfileDisplayView(c)
    \/ \E c \in Clients : CreateCoachPage(c)
    \/ \E c \in Clients : CoachShowMain(c)
    \/ \E c \in Clients : CourtShowMain(c)
    \/ \E c \in Clients, m \in Methods : GetAllCourt(c, m)
    \/ \E c \in Clients : ShowPost(c)
    \/ \E c \in Clients, m \in Methods, body \in LoginBodies : LoginView(c, m, body)
    \/ \E c \in Clients : LogoutView(c)

SpecAuth == Init /\ [][NextAuth]_vars

\* ---------------------------------------------------------------- registration
\* Texts of a register body. A field is <<>> when the key is absent or null,
\* else <<text>>. An email text is the sequence of its pieces around '@'
\* (<<>> is '', <<"noat">> has no '@', <<"a", "@x.com">> is a@x.com); a phone
\* text is the sequence of its characters; a date text is the sequence of its
\* pieces around '-'; the other texts are strings.
Names == {"", "A"}

RegisterEmails ==
    {<<>>, <<"noat">>, EmailOf("u1"), <<"a", "@x.com">>, <<"a", "@y.com">>, <<"b", "@x.com">>}

Genders == {"L", "X"}

BirthDates == {<<"2000", "01", "01">>, <<"invalid", "date">>}

Phones == {<<"0", "8">>, <<"+", "6", "-", "2">>, <<"a", "1">>}

RegisterPasswords == {"short", "abcdefgh"}

Roles == {"BIASA"}

\* The ids uuid4 can give a new row.
FreshIds == {"r1", "r2"}

\* Python truthiness of a field: None and the empty text are false.
Truthy(f) == f # <<>> /\ Len(f[1]) > 0

\* email.split('@')[0]
LocalPart(email) == IF Len(email) = 0 THEN "" ELSE email[1]

\* '@' in email
HasAt(email) == Len(email) >= 2

\* datetime.strptime(text, '%Y-%m-%d') returns rather than raising ValueError.
DateParses(text) ==
    /\ Len(text) = 3
    /\ text[1] \in {"2000"}
    /\ text[2] \in {"01", "02", "03", "04", "05", "06", "07", "08", "09", "10", "11", "12"}
    /\ text[3] \in {"01", "02", "03", "04", "05", "06", "07", "08", "09", "10"}

\* nomor_handphone.replace('+', '').replace('-', '').isdigit()
IsSign(ch) == ch \in {"+", "-"}

IsKept(ch) == ~IsSign(ch)

DigitsOnly(phone) ==
    LET rest == SelectSeq(phone, IsKept) IN
    /\ Len(rest) > 0
    /\ \A i \in 1..Len(rest) :
          rest[i] \in {"0", "1", "2", "3", "4", "5", "6", "7", "8", "9"}

\* User.objects.filter(username=username)
UsersByUsername(username) == {u \in DOMAIN users : users[u].username = username}

\* What register_view answers to a POST body that json.loads accepted, in
\* the order of its statements; "create" stands for reaching User.objects.create.
RegisterFails(data) ==
    IF data.email = <<>> THEN "raised AttributeError"
    ELSE IF ~(/\ Truthy(data.nama) /\ Truthy(data.email) /\ Truthy(data.kelamin)
              /\ Truthy(data.tanggal_lahir) /\ Truthy(data.nomor_handphone)
              /\ Truthy(data.password) /\ Truthy(data.password2))
         THEN "Semua field harus diisi"
    ELSE IF ~HasAt(data.email[1]) THEN "Format email tidak valid"
    ELSE IF data.kelamin[1] \notin {"L", "P"} THEN "Kelamin harus L atau P"
    ELSE IF ~DateParses(data.tanggal_lahir[1])
         THEN "Format tanggal lahir tidak valid (gunakan YYYY-MM-DD)"
    ELSE IF ~DigitsOnly(data.nomor_handphone[1])
         THEN "Nomor handphone hanya boleh berisi angka"
    ELSE IF data.password[1] # data.password2[1] THEN "Password tidak cocok"
    ELSE IF Len(data.password[1]) < 8 THEN "Password minimal 8 karakter"
    ELSE IF UsersByEmail(data.email[1]) # {} THEN "Email sudah terdaftar"
    ELSE IF UsersByUsername(LocalPart(data.email[1])) # {} THEN "Username sudah terdaftar"
    \* role is a column without null=True: create(role=None) raises
    \* IntegrityError, which the except Exception branch reports.
    ELSE IF data.role = <<>> THEN "Terjadi kesalahan: IntegrityError"
    ELSE "create"

\* register_view. body is <<>> for a body json.loads rejects, else <<data>>.
RegisterView(c, method, body) ==
    /\ UNCHANGED <<session, coaches, today, inflight, otherApps>>
    /\ IF method # "POST" THEN
           Reply("register_view", c, "none", 200, "rendered") /\ UNCHANGED users
       ELSE IF body = <<>> THEN
           Reply("register_view", c, "none", 500, "raised JSONDecodeError")
           /\ UNCHANGED users
       ELSE LET data == body[1]
                fails == RegisterFails(data) IN
            IF fails = "raised AttributeError" THEN
                Reply("register_view", c, "none", 500, fails) /\ UNCHANGED users
            ELSE IF fails # "create" THEN
                Reply("register_view", c, "none", 200, fails) /\ UNCHANGED users
            ELSE \E id \in FreshIds \ DOMAIN users :
                   /\ users' = [u \in DOMAIN users \cup {id} |->
                                   IF u = id
                                   THEN [email |-> data.email[1],
                                         username |-> LocalPart(data.email[1]),
                                         password |-> make_password(data.password[1])]
                                   ELSE users[u]]
                   /\ Reply("register_view", c, "none", 200, "Registrasi berhasil")

\* The bodies a register request can carry.
RegisterBodies ==
    {<<>>} \cup
    {<<[nama |-> n, email |-> e, role |-> r, kelamin |-> k, tanggal_lahir |-> t,
        nomor_handphone |-> h, password |-> p, password2 |-> q]>> :
        n \in Opt(Names), e \in Opt(RegisterEmails), r \in Opt(Roles),
        k \in Opt(Genders), t \in Opt(BirthDates), h \in Opt(Phones),
        p \in Opt(RegisterPasswords), q \in Opt(RegisterPasswords)}

\* The seeded users, nobody logged in.
InitRegister ==
    /\ users = [u \in UserIds |-> UserRow(u, "pw1")]
    /\ session = [c \in Clients |-> Anonymous]
    /\ coaches = [k \in {} |-> None]
    /\ today = 0
    /\ inflight = [c \in Clients |-> IdleReq]
    /\ resp = NoResp
    /\ OtherAppsEmpty

\* A request that is not a POST carries no body the view reads.
NextRegister ==
    \/ \E c \in Clients, body \in RegisterBodies : RegisterView(c, "POST", body)
    \/ \E c \in Clients, m \in Methods \ {"POST"} : RegisterView(c, m, <<>>)

SpecRegister == InitRegister /\ [][NextRegister]_vars

\* ---------------------------------------------------------------- Court availability
\* The ids of the courts and the created_by of each (courts holds the ids
\* that are stored); MissingCourt is an id no court ever had.
CourtIds == {"ct1"}

MissingCourt == "ct9"

CourtTable == [ct \in CourtIds |-> [created_by |-> "u1"]]

\* time(0, 0) and time(23, 59)
FullDayStart == <<0, 0>>

FullDayEnd == <<23, 59>>

\* A TimeSlot row.
TimeSlot(court, date, start_time, end_time, is_available) ==
    [court |-> court, date |-> date, start_time |-> start_time,
     end_time |-> end_time, is_available |-> is_available]

\* TimeSlot.objects.filter(court=court, date=date)
SlotsOf(table, court, date) == {r \in table : r.court = court /\ r.date = date}

\* A date text: <<d>> is the YYYY-MM-DD text of day d, <<>> the empty text,
\* MalformedDate a text strptime rejects.
MalformedDate == <<-1>>

DateTexts == {<<d>> : d \in Dates} \cup {<<>>, MalformedDate}

\* datetime.strptime(date_str, '%Y-%m-%d') returns.
StrptimeOk(text) == Len(text) = 1 /\ text[1] \in Dates

\* str(value).lower() of the values is_available is sent with.
AvailabilityValues == {"True", "False", "no", "None"}

StrLower(text) ==
    CASE text = "True" -> "true"
      [] text = "False" -> "false"
      [] text = "None" -> "none"
      [] OTHER -> text

\* str(is_available).lower() not in ('false', '0', 'no')
IsAvailableBool(value) == StrLower(value) \notin {"false", "0", "no"}

\* What a Court API view has decided: the status, the message, the slot table.
CourtAnswer(status, msg, table) == [status |-> status, msg |-> msg, slots |-> table]

\* set_availability from get_or_create on, for the owner's court and a parsed
\* date: get() raises MultipleObjectsReturned when several rows match.
SetAvailabilityResult(table, court, date, flag) ==
    LET found == SlotsOf(table, court, date)
        slot == TimeSlot(court, date, FullDayStart, FullDayEnd, flag)
    IN IF Cardinality(found) > 1
       THEN CourtAnswer(500, "raised MultipleObjectsReturned", table)
       ELSE CourtAnswer(200, "success", (table \ found) \cup {slot})

\* Variant that books an unavailable date again.
CreateBookingResult_NoCheck(table, court, date) ==
    LET found == SlotsOf(table, court, date) IN
    IF Cardinality(found) > 1
    THEN CourtAnswer(500, "get() returned more than one TimeSlot", table)
    ELSE CourtAnswer(200, "Booking successful",
                     (table \ found)
                     \cup {TimeSlot(court, date, FullDayStart, FullDayEnd, FALSE)})

\* create_booking from get_or_create on, for a stored court and a parsed date.
CreateBookingResult(table, court, date) ==
    LET found == SlotsOf(table, court, date)
        made == TimeSlot(court, date, FullDayStart, FullDayEnd, TRUE)
        got == IF found = {} THEN table \cup {made} ELSE table
        slot == IF found = {} THEN made ELSE CHOOSE r \in found : TRUE
    IN IF Cardinality(found) > 1
       THEN CourtAnswer(500, "get() returned more than one TimeSlot", table)
       ELSE IF ~slot.is_available
       THEN CourtAnswer(400, "That date has already been booked", got)
       ELSE CourtAnswer(200, "Booking successful",
                        (got \ {slot})
                        \cup {TimeSlot(court, date, FullDayStart, FullDayEnd, FALSE)})

\* A Court API response; nothing but the slot table can change.
CourtReply(op, c, pk, answer) ==
    /\ Reply(op, c, pk, answer.status, answer.msg)
    /\ slots' = answer.slots
    /\ UNCHANGED <<users, session, coaches, today, inflight,
                   events, registrations, participants, courts>>

\* Variant of set_availability that looks the court up by id alone.
SetAvailability_AnyUser(c, court_id, method, body) ==
    LET r == RequireUser(session[c], TRUE)
        keep(status, msg) ==
            CourtReply("set_availability", c, court_id, CourtAnswer(status, msg, slots))
    IN IF method # "POST" THEN keep(405, "Method Not Allowed")
       ELSE IF r.status # 0 THEN keep(401, "Authentication required")
       ELSE IF court_id \notin courts
            THEN keep(403, "You do not have permission to manage this court")
       ELSE IF body = <<>> THEN keep(400, "Invalid JSON")
       ELSE IF body[1].date = <<>> \/ Len(body[1].date[1]) = 0
            THEN keep(400, "Date is required")
       ELSE IF ~StrptimeOk(body[1].date[1]) THEN keep(400, "Format tanggal tidak valid")
       ELSE CourtReply("set_availability", c, court_id,
                       SetAvailabilityResult(
                           slots, court_id, body[1].date[1][1],
                           IsAvailableBool(IF body[1].is_available = <<>>
                                           THEN "True" ELSE body[1].is_available[1])))

\* set_availability: require_http_methods(["POST"]), _require_user in JSON
\* mode, the owner lookup, the payload, then the upsert.
SetAvailability(c, court_id, method, body) ==
    LET r == RequireUser(session[c], TRUE)
        keep(status, msg) ==
            CourtReply("set_availability", c, court_id, CourtAnswer(status, msg, slots))
    IN IF method # "POST" THEN keep(405, "Method Not Allowed")
       ELSE IF r.status # 0 THEN keep(401, "Authentication required")
       ELSE IF court_id \notin courts
               \/ CourtTable[court_id].created_by # r.user
            THEN keep(403, "You do not have permission to manage this court")
       ELSE IF body = <<>> THEN keep(400, "Invalid JSON")
       ELSE IF body[1].date = <<>> \/ Len(body[1].date[1]) = 0
            THEN keep(400, "Date is required")
       ELSE IF ~StrptimeOk(body[1].date[1]) THEN keep(400, "Format tanggal tidak valid")
       ELSE CourtReply("set_availability", c, court_id,
                       SetAvailabilityResult(
                           slots, court_id, body[1].date[1][1],
                           IsAvailableBool(IF body[1].is_available = <<>>
                                           THEN "True" ELSE body[1].is_available[1])))

\* create_booking: require_http_methods(["POST"]), _require_user in JSON
\* mode, then the body of the try block.
CreateBooking(c, method, body) ==
    LET r == RequireUser(session[c], TRUE)
        pk == IF body = <<>> \/ body[1].court_id = <<>> THEN "none"
              ELSE body[1].court_id[1]
        keep(status, msg) ==
            CourtReply("create_booking", c, pk, CourtAnswer(status, msg, slots))
    IN IF method # "POST" THEN keep(405, "Method Not Allowed")
       ELSE IF r.status # 0 THEN keep(401, "Authentication required")
       ELSE IF body = <<>> THEN keep(400, "Invalid JSON")
       ELSE IF body[1].court_id = <<>> \/ body[1].date = <<>> \/ Len(body[1].date[1]) = 0
            THEN keep(400, "court_id and date are required")
       ELSE IF ~StrptimeOk(body[1].date[1]) THEN keep(400, "Format tanggal tidak valid")
       ELSE IF pk \notin courts THEN keep(404, "Court not found")
       ELSE CourtReply("create_booking", c, pk,
                       CreateBookingResult(slots, pk, body[1].date[1][1]))

\* delete_court: require_http_methods(["POST"]), _require_user in JSON mode,
\* the owner lookup, then court.delete(), which cascades to the court's slots.
DeleteCourt(c, court_id, method) ==
    LET r == RequireUser(session[c], TRUE)
        keep(status, msg) ==
            CourtReply("delete_court", c, court_id, CourtAnswer(status, msg, slots))
    IN IF method # "POST" THEN keep(405, "Method Not Allowed")
       ELSE IF r.status # 0 THEN keep(401, "Authentication required")
       ELSE IF court_id \notin courts
               \/ CourtTable[court_id].created_by # r.user
            THEN keep(403, "You do not have permission to manage this court")
       ELSE /\ Reply("delete_court", c, court_id, 200, "success")
            /\ courts' = courts \ {court_id}
            /\ slots' = {t \in slots : t.court # court_id}
            /\ UNCHANGED <<users, session, coaches, today, inflight,
                           events, registrations, participants>>

\* get_availability: the first slot of the date by start_time decides, and a
\* date without a slot is available.
DateAvailable(table, court, date) ==
    LET found == SlotsOf(table, court, date)
        before(a, b) == a[1] < b[1] \/ (a[1] = b[1] /\ a[2] <= b[2])
    IN \A t \in found :
           (\A q \in found : before(t.start_time, q.start_time)) => t.is_available

SetAvailabilityBodies ==
    {<<>>} \cup {<<[date |-> d, is_available |-> a]>> :
                    d \in Opt(DateTexts), a \in Opt(AvailabilityValues)}

CreateBookingBodies ==
    {<<>>} \cup {<<[court_id |-> ct, date |-> d]>> :
                    ct \in Opt(CourtIds \cup {MissingCourt}), d \in Opt(DateTexts)}

\* The sessions of the Court specifications: nobody, a deleted user, the
\* court's owner or another user.
CourtSessions ==
    [Clients -> {Anonymous, ManualSession(GhostId), ManualSession("u1"), ManualSession("u2")}]

\* No slot stored: every row the behaviour holds was written by the two views.
InitCourt ==
    /\ users = [u \in UserIds |-> UserRow(u, "pw1")]
    /\ session \in CourtSessions
    /\ coaches = [k \in {} |-> None]
    /\ today = 0
    /\ inflight = [c \in Clients |-> IdleReq]
    /\ resp = NoResp
    /\ slots = {}
    /\ events = <<>>
    /\ registrations = EmptyBag
    /\ participants = EmptyBag
    /\ courts = CourtIds

NextCourt ==
    \/ \E c \in Clients, ct \in CourtIds \cup {MissingCourt}, m \in Methods,
          body \in SetAvailabilityBodies : SetAvailability(c, ct, m, body)
    \/ \E c \in Clients, m \in Methods, body \in CreateBookingBodies :
          CreateBooking(c, m, body)

SpecCourt == InitCourt /\ [][NextCourt]_vars

\* The same requests and the deletion of a court.
NextCourtDelete ==
    \/ NextCourt
    \/ \E c \in Clients, ct \in CourtIds \cup {MissingCourt}, m \in Methods :
          DeleteCourt(c, ct, m)

SpecCourtDelete == InitCourt /\ [][NextCourtDelete]_vars

\* ---------------------------------------------------------------- overlapping bookings of a court
\* create_booking opens no transaction and takes no lock: between its
\* get_or_create and its slot.save() other requests run.
PendingBooking(slot) == [op |-> "create_booking", pk |-> slot.court, slot |-> slot]

DoneBooking(pk, date, status) ==
    [op |-> "done", req |-> "create_booking", pk |-> pk, date |-> date, status |-> status]

\* The answer a booking request gives without a slot.save().
BookingAnswered(c, pk, date, status, msg, table) ==
    /\ Reply("create_booking", c, pk, status, msg)
    /\ slots' = table
    /\ inflight' = [inflight EXCEPT ![c] = DoneBooking(pk, date, status)]
    /\ UNCHANGED <<users, session, coaches, today,
                   events, registrations, participants, courts>>

\* create_booking up to the test of slot.is_available: get_or_create has
\* stored the slot when the date had none.
BeginCreateBooking(c, method, body) ==
    LET r == RequireUser(session[c], TRUE)
        pk == IF body = <<>> \/ body[1].court_id = <<>> THEN "none"
              ELSE body[1].court_id[1]
        keep(status, msg) == BookingAnswered(c, pk, -1, status, msg, slots)
    IN /\ Free(c)
       /\ IF method # "POST" THEN keep(405, "Method Not Allowed")
          ELSE IF r.status # 0 THEN keep(401, "Authentication required")
          ELSE IF body = <<>> THEN keep(400, "Invalid JSON")
          ELSE IF body[1].court_id = <<>> \/ body[1].date = <<>> \/ Len(body[1].date[1]) = 0
               THEN keep(400, "court_id and date are required")
          ELSE IF ~StrptimeOk(body[1].date[1]) THEN keep(400, "Format tanggal tidak valid")
          ELSE IF pk \notin courts THEN keep(404, "Court not found")
          ELSE LET date == body[1].date[1][1]
                   found == SlotsOf(slots, pk, date)
                   made == TimeSlot(pk, date, FullDayStart, FullDayEnd, TRUE)
                   got == IF found = {} THEN slots \cup {made} ELSE slots
                   slot == IF found = {} THEN made ELSE CHOOSE t \in found : TRUE
               IN IF Cardinality(found) > 1
                  THEN BookingAnswered(c, pk, date, 500,
                                       "get() returned more than one TimeSlot", slots)
                  ELSE IF ~slot.is_available
                  THEN BookingAnswered(c, pk, date, 400,
                                       "That date has already been booked", got)
                  ELSE /\ slots' = got
                       /\ inflight' = [inflight EXCEPT ![c] = PendingBooking(slot)]
                       /\ UNCHANGED <<users, session, coaches, today, resp,
                                      events, registrations, participants, courts>>

\* The rest of create_booking: the instance loaded earlier is made an
\* unavailable full-day slot and saved over its row, whatever the row holds now.
CommitCreateBooking(c) ==
    LET slot == inflight[c].slot IN
    /\ inflight[c].op = "create_booking"
    /\ BookingAnswered(c, slot.court, slot.date, 200, "Booking successful",
            {t \in slots : ~(/\ t.court = slot.court /\ t.date = slot.date
                              /\ t.start_time = slot.start_time)}
            \cup {TimeSlot(slot.court, slot.date, FullDayStart, FullDayEnd, FALSE)})

\* No slot stored; every client is logged in or not as in the Court specification.
InitCourtConc == InitCourt

NextCourtConc ==
    \/ \E c \in Clients, m \in Methods, body \in CreateBookingBodies :
          BeginCreateBooking(c, m, body)
    \/ \E c \in Clients : CommitCreateBooking(c)

SpecCourtConc == InitCourtConc /\ [][NextCourtConc]_vars

\* The slot rows a database can hold before the views run: hourly rows as
\* well as full-day ones, at most one per (court, date, start_time).
StoredSlotRows ==
    {TimeSlot(ct, 0, FullDayStart, FullDayEnd, a) : ct \in CourtIds, a \in BOOLEAN}
    \cup {TimeSlot(ct, 0, <<10, 0>>, <<11, 0>>, a) : ct \in CourtIds, a \in BOOLEAN}

UniqueTogether(table) ==
    \A r, q \in table :
        (r.court = q.court /\ r.date = q.date /\ r.start_time = q.start_time) => r = q

InitCourtStored ==
    /\ users = [u \in UserIds |-> UserRow(u, "pw1")]
    /\ session \in CourtSessions
    /\ coaches = [k \in {} |-> None]
    /\ today = 0
    /\ inflight = [c \in Clients |-> IdleReq]
    /\ resp = NoResp
    /\ slots \in {t \in SUBSET StoredSlotRows : UniqueTogether(t)}
    /\ events = <<>>
    /\ registrations = EmptyBag
    /\ participants = EmptyBag
    /\ courts = CourtIds

SpecCourtStored == InitCourtStored /\ [][NextCourt]_vars

\* ---------------------------------------------------------------- Event registrations
\* The stored events and the schedules (date slots) of each; MissingEvent and
\* MissingSchedule are ids of no row.
EventIds == {"e1", "e2"}

MissingEvent == "e9"

ScheduleTable == [sc1 |-> "e1", sc2 |-> "e1", sc3 |-> "e2"]

MissingSchedule == "sc9"

\* EventSchedule.is_available of each schedule: add_event stores TRUE, the
\* schedule form stores what its checkbox holds.
ScheduleAvailable == [sc1 |-> TRUE, sc2 |-> FALSE, sc3 |-> TRUE]

\* An EventRegistration row; the table is a bag, so that two rows of one
\* (event, user, schedule) are two copies.
EventRegistration(event, user, schedule) ==
    [event |-> event, user |-> user, schedule |-> schedule]

\* EventRegistration.objects.filter(event=event, user=user)
RegistrationsOf(regs, event, user) ==
    {r \in BagToSet(regs) : r.event = event /\ r.user = user}

\* queryset.count()
CountOf(regs, rows) ==
    LET idx == CHOOSE f \in [1..Cardinality(rows) -> rows] :
                   \A i, j \in 1..Cardinality(rows) : i # j => f[i] # f[j]
        sum[i \in 0..Cardinality(rows)] ==
            IF i = 0 THEN 0 ELSE sum[i - 1] + CopiesIn(idx[i], regs)
    IN sum[Cardinality(rows)]

\* queryset.delete()
WithoutRows(regs, rows) ==
    LET kept == BagToSet(regs) \ rows IN
    [r \in kept |-> CopiesIn(r, regs)]

\* custom_login_required of Event/views.py: a JSON endpoint (or an
\* XMLHttpRequest) is answered 401, a page request is redirected; a user_id
\* that names no user flushes the session.
EventLoginGate(s, is_json_endpoint) ==
    IF "user_id" \notin DOMAIN s
    THEN [user |-> None, status |-> IF is_json_endpoint THEN 401 ELSE 302,
          flush |-> FALSE, msg |-> "Please login first"]
    ELSE IF s["user_id"] \notin DOMAIN users
         THEN [user |-> None, status |-> IF is_json_endpoint THEN 401 ELSE 302,
               flush |-> TRUE, msg |-> "Session expired. Please login again"]
         ELSE [user |-> s["user_id"], status |-> 0, flush |-> FALSE, msg |-> "none"]

\* What an Event view has decided: status, message, the number it reports
\* (0 when it reports none) and the two tables.
EventAnswer(status, msg, count, evs, regs) ==
    [status |-> status, msg |-> msg, count |-> count, events |-> evs, registrations |-> regs]

\* Variant of the join body without the 'already registered' test.
JoinResult_NoExistsCheck(evs, regs, pk, user, body, errStatus, dupMsg) ==
    IF body = <<>> THEN EventAnswer(errStatus, "raised JSONDecodeError", 0, evs, regs)
    ELSE IF body[1].schedule_id = <<>>
         THEN EventAnswer(400, "Please select a date", 0, evs, regs)
    ELSE IF pk \notin DOMAIN evs THEN EventAnswer(errStatus, "raised Http404", 0, evs, regs)
    ELSE IF body[1].schedule_id[1] \notin DOMAIN ScheduleTable
            \/ ScheduleTable[body[1].schedule_id[1]] # pk
         THEN EventAnswer(errStatus, "raised Http404", 0, evs, regs)
    ELSE EventAnswer(200, "Successfully joined the event!", 0, evs,
                     regs (+) SetToBag({EventRegistration(pk, user, body[1].schedule_id[1])}))

\* All rows of an event, with their copies.
EventRows(regs, event) == {r \in BagToSet(regs) : r.event = event}

\* Variant of the join body that admits registrations only while the event is
\* available, the schedule is available and a place is left.
JoinResult_OpenOnly(evs, regs, pk, user, body, errStatus, dupMsg) ==
    IF body = <<>> THEN EventAnswer(errStatus, "raised JSONDecodeError", 0, evs, regs)
    ELSE IF body[1].schedule_id = <<>>
         THEN EventAnswer(400, "Please select a date", 0, evs, regs)
    ELSE IF pk \notin DOMAIN evs THEN EventAnswer(errStatus, "raised Http404", 0, evs, regs)
    ELSE IF body[1].schedule_id[1] \notin DOMAIN ScheduleTable
            \/ ScheduleTable[body[1].schedule_id[1]] # pk
         THEN EventAnswer(errStatus, "raised Http404", 0, evs, regs)
    ELSE IF BagIn(EventRegistration(pk, user, body[1].schedule_id[1]), regs)
         THEN EventAnswer(400, dupMsg, 0, evs, regs)
    ELSE IF \/ evs[pk].status # "available"
            \/ ~ScheduleAvailable[body[1].schedule_id[1]]
            \/ CountOf(regs, EventRows(regs, pk)) >= evs[pk].max_participants
         THEN EventAnswer(400, "Event is closed", 0, evs, regs)
    ELSE EventAnswer(200, "Successfully joined the event!", 0, evs,
                     regs (+) SetToBag({EventRegistration(pk, user, body[1].schedule_id[1])}))

\* The try block of ajax_join_event (errStatus 500) and json_join_event
\* (errStatus 400): every exception is answered with errStatus.
JoinResult(evs, regs, pk, user, body, errStatus, dupMsg) ==
    IF body = <<>> THEN EventAnswer(errStatus, "raised JSONDecodeError", 0, evs, regs)
    ELSE IF body[1].schedule_id = <<>>
         THEN EventAnswer(400, "Please select a date", 0, evs, regs)
    ELSE IF pk \notin DOMAIN evs THEN EventAnswer(errStatus, "raised Http404", 0, evs, regs)
    ELSE IF body[1].schedule_id[1] \notin DOMAIN ScheduleTable
            \/ ScheduleTable[body[1].schedule_id[1]] # pk
         THEN EventAnswer(errStatus, "raised Http404", 0, evs, regs)
    ELSE IF BagIn(EventRegistration(pk, user, body[1].schedule_id[1]), regs)
         THEN EventAnswer(400, dupMsg, 0, evs, regs)
    ELSE EventAnswer(200, "Successfully joined the event!", 0, evs,
                     regs (+) SetToBag({EventRegistration(pk, user, body[1].schedule_id[1])}))

\* Variant of the cancel body that deletes the registrations of one schedule only.
CancelResult_OneSchedule(evs, regs, pk, user, errStatus) ==
    LET mine == RegistrationsOf(regs, pk, user) IN
    IF pk \notin DOMAIN evs THEN EventAnswer(errStatus, "raised Http404", 0, evs, regs)
    ELSE IF mine = {} THEN EventAnswer(400, "No registration found", 0, evs, regs)
    ELSE LET one == CHOOSE r \in mine : TRUE IN
         EventAnswer(200, "Successfully cancelled registration(s)!",
                     CopiesIn(one, regs), evs, WithoutRows(regs, {one}))

\* The try block of ajax_cancel_registration (errStatus 500) and
\* json_cancel_event (errStatus 400).
CancelResult(evs, regs, pk, user, errStatus) ==
    LET mine == RegistrationsOf(regs, pk, user) IN
    IF pk \notin DOMAIN evs THEN EventAnswer(errStatus, "raised Http404", 0, evs, regs)
    ELSE IF mine = {} THEN EventAnswer(400, "No registration found", 0, evs, regs)
    ELSE EventAnswer(200, "Successfully cancelled registration(s)!",
                     CountOf(regs, mine), evs, WithoutRows(regs, mine))

\* event.status = 'available' if is_available else 'unavailable'; event.save()
WithStatus(evs, pk, is_available) ==
    [evs EXCEPT ![pk].status = IF is_available THEN "available" ELSE "unavailable"]

\* The body of ajax_toggle_availability: every failure is a 200 JSON with
\* success false; the view compares nobody with the organizer.
AjaxToggleResult(evs, regs, pk, user, body) ==
    IF body = <<>> THEN EventAnswer(200, "Invalid JSON", 0, evs, regs)
    ELSE IF body[1].is_available = <<>> THEN EventAnswer(200, "Invalid status", 0, evs, regs)
    ELSE IF pk \notin DOMAIN evs THEN EventAnswer(200, "raised Http404", 0, evs, regs)
    ELSE EventAnswer(200, "Event marked", 0,
                     WithStatus(evs, pk, body[1].is_available[1]), regs)

\* The try block of json_toggle_availability.
JsonToggleResult(evs, regs, pk, user, body) ==
    IF pk \notin DOMAIN evs THEN EventAnswer(400, "raised Http404", 0, evs, regs)
    ELSE IF evs[pk].organizer # user THEN EventAnswer(403, "You are not authorized", 0, evs, regs)
    ELSE IF body = <<>> THEN EventAnswer(400, "raised JSONDecodeError", 0, evs, regs)
    ELSE IF body[1].is_available = <<>> THEN EventAnswer(400, "Invalid status", 0, evs, regs)
    ELSE EventAnswer(200, "Event marked", 0,
                     WithStatus(evs, pk, body[1].is_available[1]), regs)

\* An Event response.
EventReply(op, c, pk, answer) ==
    /\ resp' = [op |-> op, c |-> c, pk |-> pk, status |-> answer.status,
                msg |-> answer.msg, count |-> answer.count]
    /\ events' = answer.events
    /\ registrations' = answer.registrations

\* custom_login_required(require_http_methods(["POST"])(view)): the AJAX
\* endpoints; the request may or may not carry X-Requested-With.
AjaxEndpoint(op, c, pk, method, answer) ==
    /\ UNCHANGED <<users, coaches, today, inflight, slots, participants, courts>>
    /\ IF EventLoginGate(session[c], TRUE).status # 0 THEN
           \E xhr \in BOOLEAN :
               LET g == EventLoginGate(session[c], xhr) IN
               /\ session' = IF g.flush THEN [session EXCEPT ![c] = Flushed] ELSE session
               /\ EventReply(op, c, pk, EventAnswer(g.status, g.msg, 0, events, registrations))
       ELSE /\ UNCHANGED session
            /\ IF method # "POST"
               THEN EventReply(op, c, pk, EventAnswer(405, "Method Not Allowed", 0,
                                                      events, registrations))
               ELSE EventReply(op, c, pk, answer)

\* csrf_exempt(custom_login_required(view)) under /event/json/: the view
\* itself answers 405 to a method other than POST.
JsonEndpoint(op, c, pk, method, answer) ==
    LET g == EventLoginGate(session[c], TRUE) IN
    /\ UNCHANGED <<users, coaches, today, inflight, slots, participants, courts>>
    /\ IF g.status # 0 THEN
           /\ session' = IF g.flush THEN [session EXCEPT ![c] = Flushed] ELSE session
           /\ EventReply(op, c, pk, EventAnswer(g.status, g.msg, 0, events, registrations))
       ELSE /\ UNCHANGED session
            /\ IF method # "POST"
               THEN EventReply(op, c, pk, EventAnswer(405, "Method not allowed", 0,
                                                      events, registrations))
               ELSE EventReply(op, c, pk, answer)

AjaxJoinEvent(c, pk, method, body) ==
    AjaxEndpoint("ajax_join_event", c, pk, method,
                 JoinResult(events, registrations, pk, Actor(c), body, 500,
                            "Already registered"))

JsonJoinEvent(c, pk, method, body) ==
    JsonEndpoint("json_join_event", c, pk, method,
                 JoinResult(events, registrations, pk, Actor(c), body, 400,
                            "Already registered for this date"))

AjaxCancelRegistration(c, pk, method) ==
    AjaxEndpoint("ajax_cancel_registration", c, pk, method,
                 CancelResult(events, registrations, pk, Actor(c), 500))

JsonCancelEvent(c, pk, method) ==
    JsonEndpoint("json_cancel_event", c, pk, method,
                 CancelResult(events, registrations, pk, Actor(c), 400))

AjaxToggleAvailability(c, pk, method, body) ==
    AjaxEndpoint("ajax_toggle_availability", c, pk, method,
                 AjaxToggleResult(events, registrations, pk, Actor(c), body))

JsonToggleAvailability(c, pk, method, body) ==
    JsonEndpoint("json_toggle_availability", c, pk, method,
                 JsonToggleResult(events, registrations, pk, Actor(c), body))

\* The bodies of a join ({schedule_id}) and of a toggle ({is_available}; <<>>
\* stands for an absent key, null or a value that is not a JSON boolean).
JoinBodies ==
    {<<>>} \cup {<<[schedule_id |-> sc]>> :
                    sc \in Opt(DOMAIN ScheduleTable \cup {MissingSchedule})}

ToggleBodies == {<<>>} \cup {<<[is_available |-> a]>> : a \in Opt(BOOLEAN)}

\* Two events, of u1 and of u2, both available and for one participant,
\* nobody registered; the first client is nobody, a deleted user or u1, the
\* second is u2.
InitEvent ==
    /\ users = [u \in UserIds |-> UserRow(u, "pw1")]
    /\ session \in {s \in [Clients -> {Anonymous, ManualSession(GhostId)}
                                      \cup {ManualSession(u) : u \in UserIds}] :
                       /\ s["c1"] \notin {ManualSession("u2"), ManualSession("u3")}
                       /\ s["c2"] = ManualSession("u2")}
    /\ coaches = [k \in {} |-> None]
    /\ today = 0
    /\ inflight = [c \in Clients |-> IdleReq]
    /\ resp = NoResp
    /\ slots = {}
    /\ events = [e \in EventIds |->
                    [organizer |-> IF e = "e1" THEN "u1" ELSE "u2", status |-> "available",
                     max_participants |-> 1]]
    /\ registrations = EmptyBag
    /\ participants = EmptyBag
    /\ courts = {}

\* The request methods sent to the Event endpoints.
EventMethods == {"GET", "POST"}

NextEvent ==
    \/ \E c \in Clients, pk \in EventIds \cup {MissingEvent}, m \in EventMethods,
          body \in JoinBodies : AjaxJoinEvent(c, pk, m, body)
    \/ \E c \in Clients, pk \in EventIds \cup {MissingEvent}, m \in EventMethods,
          body \in JoinBodies : JsonJoinEvent(c, pk, m, body)
    \/ \E c \in Clients, pk \in EventIds \cup {MissingEvent}, m \in EventMethods :
          AjaxCancelRegistration(c, pk, m)
    \/ \E c \in Clients, pk \in EventIds \cup {MissingEvent}, m \in EventMethods :
          JsonCancelEvent(c, pk, m)

\* The requests that register and unregister.
SpecEvent == InitEvent /\ [][NextEvent]_vars

NextEventStatus ==
    \/ \E c \in Clients, pk \in EventIds \cup {MissingEvent}, m \in EventMethods,
          body \in ToggleBodies : AjaxToggleAvailability(c, pk, m, body)
    \/ \E c \in Clients, pk \in EventIds \cup {MissingEvent}, m \in EventMethods,
          body \in ToggleBodies : JsonToggleAvailability(c, pk, m, body)

\* The requests that change an event's status; no join or cancel reads it.
SpecEventStatus == InitEvent /\ [][NextEventStatus]_vars

\* Joins of the stored events, and the POST requests that toggle them.
NextEventJoin ==
    \/ \E c \in Clients, pk \in EventIds, m \in EventMethods, body \in JoinBodies :
          AjaxJoinEvent(c, pk, m, body)
    \/ \E c \in Clients, pk \in EventIds, m \in EventMethods, body \in JoinBodies :
          JsonJoinEvent(c, pk, m, body)
    \/ \E c \in Clients, pk \in EventIds, body \in ToggleBodies :
          AjaxToggleAvailability(c, pk, "POST", body)
    \/ \E c \in Clients, pk \in EventIds, body \in ToggleBodies :
          JsonToggleAvailability(c, pk, "POST", body)

\* The two organizers are logged in.
InitEventJoin == InitEvent /\ session["c1"] = ManualSession("u1")

SpecEventJoin == InitEventJoin /\ [][NextEventJoin]_vars

\* ---------------------------------------------------------------- Sport_Partner participants
\* The stored posts with their creators; MissingPost is the id of no post.
PostIds == {"p1", "p2"}

MissingPost == "p9"

PostTable == [p1 |-> [creator |-> "u1"], p2 |-> [creator |-> "u2"]]

\* A PostParticipants row; the table is a bag, so that two rows of one
\* (post, participant) are two copies.
PostParticipants(post, user) == [post_id |-> post, participant |-> user]

\* post.postparticipants_set
ParticipantsSetOf(parts, post) ==
    LET rows == {r \in BagToSet(parts) : r.post_id = post} IN
    [r \in rows |-> CopiesIn(r, parts)]

\* PartnerPost.total_participants
total_participants(parts, post) == BagCardinality(ParticipantsSetOf(parts, post))

\* PartnerPost.is_participant
is_participant(parts, post, user) == BagIn(PostParticipants(post, user), parts)

\* Variant of add_participant that creates the row without looking for one.
add_participant_NoExistsCheck(parts, post, user) ==
    [ok |-> TRUE, participants |-> parts (+) SetToBag({PostParticipants(post, user)})]

\* PartnerPost.add_participant: the row is created unless one exists; the
\* result tells which.
add_participant(parts, post, user) ==
    IF ~BagIn(PostParticipants(post, user), parts)
    THEN [ok |-> TRUE, participants |-> parts (+) SetToBag({PostParticipants(post, user)})]
    ELSE [ok |-> FALSE, participants |-> parts]

\* Variant of remove_participant whose filter forgets the participant.
remove_participant_WholePost(parts, post, user) ==
    LET kept == {r \in BagToSet(parts) : r.post_id # post} IN
    [r \in kept |-> CopiesIn(r, parts)]

\* PartnerPost.remove_participant: filter(participant=user).delete()
remove_participant(parts, post, user) ==
    LET kept == {r \in BagToSet(parts) : ~(r.post_id = post /\ r.participant = user)} IN
    [r \in kept |-> CopiesIn(r, parts)]

\* A Sport_Partner JSON response: success, message and, when the view sends
\* it, total_participants.
PartnerReply(op, c, pk, status, success, msg, total) ==
    resp' = [op |-> op, c |-> c, pk |-> pk, status |-> status, msg |-> msg,
             success |-> success, total_participants |-> total]

\* join_post and leave_post up to the point where post and user are loaded:
\* no decorator, the session is only tested for the key, the post is looked up
\* before the user, and a user_id of no user raises out of the view.
PartnerPrelude(op, c, post_id, method) ==
    IF "user_id" \notin DOMAIN session[c]
    THEN PartnerReply(op, c, post_id, 200, FALSE, "Anda harus login terlebih dahulu", <<>>)
    ELSE IF method # "POST"
    THEN PartnerReply(op, c, post_id, 200, FALSE, "Method tidak valid", <<>>)
    ELSE IF post_id \notin DOMAIN PostTable
    THEN PartnerReply(op, c, post_id, 404, FALSE, "raised Http404", <<>>)
    ELSE PartnerReply(op, c, post_id, 500, FALSE, "raised User.DoesNotExist", <<>>)

\* The request reaches the body of the view.
PartnerLoaded(c, post_id, method) ==
    /\ "user_id" \in DOMAIN session[c]
    /\ method = "POST"
    /\ post_id \in DOMAIN PostTable
    /\ session[c]["user_id"] \in DOMAIN users

JoinPost(c, post_id, method) ==
    /\ UNCHANGED <<users, session, coaches, today, inflight, slots, events, registrations,
                   courts>>
    /\ IF ~PartnerLoaded(c, post_id, method)
       THEN PartnerPrelude("join_post", c, post_id, method) /\ UNCHANGED participants
       ELSE IF PostTable[post_id].creator = Actor(c)
       THEN /\ PartnerReply("join_post", c, post_id, 200, FALSE,
                            "Anda adalah creator post ini", <<>>)
            /\ UNCHANGED participants
       ELSE LET added == add_participant(participants, post_id, Actor(c)) IN
            /\ participants' = added.participants
            /\ IF added.ok
               THEN PartnerReply("join_post", c, post_id, 200, TRUE, "Berhasil join!",
                                 <<total_participants(added.participants, post_id)>>)
               ELSE PartnerReply("join_post", c, post_id, 200, FALSE,
                                 "Anda sudah join post ini", <<>>)

LeavePost(c, post_id, method) ==
    /\ UNCHANGED <<users, session, coaches, today, inflight, slots, events, registrations,
                   courts>>
    /\ IF ~PartnerLoaded(c, post_id, method)
       THEN PartnerPrelude("leave_post", c, post_id, method) /\ UNCHANGED participants
       ELSE /\ participants' = remove_participant(participants, post_id, Actor(c))
            /\ PartnerReply("leave_post", c, post_id, 200, TRUE, "Berhasil leave",
                            <<total_participants(participants', post_id)>>)

\* Two posts, of u1 and of u2, nobody joined; the first client is nobody, a
\* deleted user or u1, the second is u2 or u3.
InitPartner ==
    /\ users = [u \in UserIds |-> UserRow(u, "pw1")]
    /\ session \in {s \in [Clients -> {Anonymous, ManualSession(GhostId)}
                                      \cup {ManualSession(u) : u \in UserIds}] :
                       /\ s["c1"] \notin {ManualSession("u2"), ManualSession("u3")}
                       /\ s["c2"] \in {ManualSession("u2"), ManualSession("u3")}}
    /\ coaches = [k \in {} |-> None]
    /\ today = 0
    /\ inflight = [c \in Clients |-> IdleReq]
    /\ resp = NoResp
    /\ slots = {}
    /\ events = <<>>
    /\ registrations = EmptyBag
    /\ participants = EmptyBag
    /\ courts = {}

NextPartner ==
    \/ \E c \in Clients, post_id \in PostIds \cup {MissingPost}, m \in Methods :
          JoinPost(c, post_id, m)
    \/ \E c \in Clients, post_id \in PostIds \cup {MissingPost}, m \in Methods :
          LeavePost(c, post_id, m)

SpecPartner == InitPartner /\ [][NextPartner]_vars

\* ================================================================ properties
\* A step that is the request op(c, pk, m); the three tests of resp' follow
\* from the action and only spare its evaluation on other steps.
IsUpdate(c, pk, m) ==
    resp'.op = "update_coach" /\ resp'.c = c /\ resp'.pk = pk /\ UpdateCoach(c, pk, m)

IsBook(c, pk, m) ==
    resp'.op = "book_coach" /\ resp'.c = c /\ resp'.pk = pk /\ BookCoach(c, pk, m)

IsCancel(c, pk, m) ==
    resp'.op = "cancel_booking" /\ resp'.c = c /\ resp'.pk = pk /\ CancelBooking(c, pk, m)

IsMarkAvailable(c, pk, m) ==
    resp'.op = "mark_available" /\ resp'.c = c /\ resp'.pk = pk /\ MarkAvailable(c, pk, m)

IsMarkUnavailable(c, pk, m) ==
    resp'.op = "mark_unavailable" /\ resp'.c = c /\ resp'.pk = pk
    /\ MarkUnavailable(c, pk, m)

IsDelete(c, pk, m) ==
    resp'.op = "delete_coach" /\ resp'.c = c /\ resp'.pk = pk /\ DeleteCoach(c, pk, m)

\* isBooked of a stored coach is reset only by a cancel or a mark_available
\* that succeeded.
BookedUntilFreed ==
    \A pk \in CoachIds :
        (/\ pk \in DOMAIN coaches /\ pk \in DOMAIN coaches'
         /\ coaches[pk].isBooked /\ ~coaches'[pk].isBooked)
        => resp'.op \in {"cancel_booking", "mark_available"} /\ resp'.status = 200

\* C1 as stated: on a coach with isBooked = FALSE a book by an authenticated
\* non-owner succeeds (200, peserta = actor, isBooked = TRUE); a book on a coach
\* that is booked fails with 400 "Coach already booked" for every user and
\* leaves the row unchanged; isBooked stays set until a cancel or mark_available.
C1_AsStated ==
    [][/\ \A c \in Clients, pk \in CoachIds :
            (Resolves(c) /\ pk \in DOMAIN coaches /\ IsBook(c, pk, "POST")) =>
                /\ (~coaches[pk].isBooked /\ Actor(c) # coaches[pk].user) =>
                       /\ resp'.status = 200
                       /\ coaches'[pk].peserta = Actor(c)
                       /\ coaches'[pk].isBooked
                /\ coaches[pk].isBooked =>
                       /\ resp'.status = 400
                       /\ resp'.msg = "Coach already booked"
                       /\ coaches' = coaches
       /\ BookedUntilFreed]_vars

\* C1 (amended): with requests handled one at a time, on a coach with
\* isBooked = FALSE whose date is not before the current date a book by an
\* authenticated non-owner succeeds (200, peserta = actor, isBooked = TRUE);
\* every book on a booked coach fails with 400 and leaves the row unchanged,
\* the message being "Coach already booked" for a non-owner and
\* "Cannot book your own coach" for the owner; isBooked stays set until a
\* cancel or mark_available succeeds.
C1_BookOnce ==
    [][/\ \A c \in Clients, pk \in CoachIds :
            (Resolves(c) /\ pk \in DOMAIN coaches /\ IsBook(c, pk, "POST")) =>
                /\ (/\ ~coaches[pk].isBooked /\ Actor(c) # coaches[pk].user
                    /\ ~(coaches[pk].date < today)) =>
                       /\ resp'.status = 200
                       /\ coaches'[pk].peserta = Actor(c)
                       /\ coaches'[pk].isBooked
                /\ coaches[pk].isBooked =>
                       /\ resp'.status = 400
                       /\ resp'.msg = IF Actor(c) = coaches[pk].user
                                      THEN "Cannot book your own coach"
                                      ELSE "Coach already booked"
                       /\ coaches' = coaches
       /\ BookedUntilFreed]_vars

\* C1 witness: the booker's own second book was refused and the booking stands.
C1_Witness ==
    /\ resp.op = "book_coach" /\ resp.status = 400 /\ resp.msg = "Coach already booked"
    /\ resp.pk \in DOMAIN coaches /\ Resolves(resp.c)
    /\ coaches[resp.pk].peserta = Actor(resp.c) /\ coaches[resp.pk].isBooked

\* C2: a book by the coach's owner fails (400 "Cannot book your own coach") in
\* every state of the coach and leaves every coach row unchanged.
C2_OwnerNeverBooks ==
    [][\A c \in Clients, pk \in CoachIds :
          (/\ Resolves(c) /\ pk \in DOMAIN coaches
           /\ Actor(c) = coaches[pk].user
           /\ IsBook(c, pk, "POST")) =>
              /\ resp'.status = 400
              /\ resp'.msg = "Cannot book your own coach"
              /\ coaches' = coaches]_vars

\* C2 witness: the owner was refused on a coach that another user has booked.
C2_Witness ==
    /\ resp.op = "book_coach" /\ resp.msg = "Cannot book your own coach"
    /\ resp.pk \in DOMAIN coaches /\ Resolves(resp.c)
    /\ Actor(resp.c) = coaches[resp.pk].user
    /\ coaches[resp.pk].isBooked /\ coaches[resp.pk].peserta # None

\* C3 as stated: a cancel by the current peserta succeeds and clears peserta
\* and isBooked; a cancel by anyone else is answered 403 and changes nothing.
C3_AsStated ==
    [][\A c \in Clients, pk \in CoachIds :
          (Resolves(c) /\ pk \in DOMAIN coaches /\ IsCancel(c, pk, "POST")) =>
              IF coaches[pk].peserta = Actor(c)
              THEN /\ resp'.status = 200
                   /\ coaches'[pk].peserta = None
                   /\ ~coaches'[pk].isBooked
              ELSE /\ resp'.status = 403
                   /\ coaches' = coaches]_vars

\* C5 as stated: when the owner's mark_unavailable is followed by the owner's
\* mark_available, the coach ends with isBooked = FALSE and peserta = None.
C5_AsStated ==
    [][\A c \in Clients, pk \in CoachIds :
          (/\ Resolves(c) /\ pk \in DOMAIN coaches
           /\ Actor(c) = coaches[pk].user
           /\ resp.op = "mark_unavailable" /\ resp.c = c /\ resp.pk = pk
           /\ IsMarkAvailable(c, pk, "POST")) =>
              /\ ~coaches'[pk].isBooked
              /\ coaches'[pk].peserta = None]_vars

\* C6: mark_available and mark_unavailable by an authenticated user who is not
\* the owner (the current booker included) are answered 403 and change nothing.
C6_OwnerOnlyMarks ==
    [][\A c \in Clients, pk \in CoachIds :
          (/\ Resolves(c) /\ pk \in DOMAIN coaches
           /\ Actor(c) # coaches[pk].user
           /\ IsMarkAvailable(c, pk, "POST") \/ IsMarkUnavailable(c, pk, "POST")) =>
              /\ resp'.status = 403
              /\ coaches' = coaches]_vars

\* C6 witness: the current booker asked for mark_available and got 403.
C6_Witness ==
    /\ resp.op = "mark_available" /\ resp.status = 403
    /\ resp.pk \in DOMAIN coaches /\ Resolves(resp.c)
    /\ coaches[resp.pk].peserta = Actor(resp.c) /\ coaches[resp.pk].isBooked

\* C7 as stated: a POST to delete-coach by an authenticated non-owner is
\* answered 403 and the coach still exists; by the owner it is answered 200
\* and the coach no longer exists.
C7_AsStated ==
    [][\A c \in Clients, pk \in CoachIds :
          (Resolves(c) /\ pk \in DOMAIN coaches /\ IsDelete(c, pk, "POST")) =>
              IF Actor(c) = coaches[pk].user
              THEN resp'.status = 200 /\ pk \notin DOMAIN coaches'
              ELSE resp'.status = 403 /\ coaches' = coaches]_vars

\* A request of client c to one of the mutating Coach endpoints.
CoachMutation(c, pk, m) ==
    \/ IsUpdate(c, pk, m) \/ IsBook(c, pk, m) \/ IsCancel(c, pk, m)
    \/ IsMarkAvailable(c, pk, m) \/ IsMarkUnavailable(c, pk, m) \/ IsDelete(c, pk, m)

\* C9: a request to a mutating Coach endpoint whose session resolves to no
\* user changes no coach row; nor does an authenticated request that fails the
\* endpoint's ownership/booker check (non-owner for update, mark_* and delete,
\* non-booker for cancel, owner for book).
C9_ChecksBeforeWrite ==
    [][\A c \in Clients, pk \in CoachIds, m \in Methods :
          /\ (~Resolves(c) /\ CoachMutation(c, pk, m)) =>
                 /\ coaches' = coaches
                 /\ resp'.status \in {302, 401}
          /\ (/\ Resolves(c) /\ pk \in DOMAIN coaches
              /\ \/ /\ Actor(c) # coaches[pk].user
                    /\ \/ IsUpdate(c, pk, m) \/ IsMarkAvailable(c, pk, m)
                       \/ IsMarkUnavailable(c, pk, m) \/ IsDelete(c, pk, m)
                 \/ Actor(c) # coaches[pk].peserta /\ IsCancel(c, pk, m)
                 \/ Actor(c) = coaches[pk].user /\ IsBook(c, pk, m)) =>
                 /\ coaches' = coaches
                 /\ resp'.status \in {400, 403, 405}]_vars

\* C9 witness: a request whose session resolves to no user reached book_coach
\* for a stored coach and was redirected; the session is empty afterwards.
C9_Witness ==
    /\ resp.op = "book_coach" /\ resp.status = 302
    /\ resp.pk \in DOMAIN coaches
    /\ session[resp.c] = Flushed
    /\ \E c \in Clients : c # resp.c /\ Resolves(c)

\* C4: book_coach takes no lock between its isBooked check and its save. A
\* request that passed the check while the row was free writes the row whole
\* when it saves, whatever another request stored in between: provided the
\* coach's date has not passed by then it answers 200 and the stored row is
\* booked by its own user alone.
C4_RaceDoubleBooks ==
    [][\A c \in Clients :
          (/\ inflight[c].op = "book_coach"
           /\ inflight[c].plan.obj.date >= today
           /\ Commit(c)) =>
              /\ resp'.status = 200
              /\ inflight'[c].status = 200
              /\ coaches'[inflight[c].pk].isBooked
              /\ coaches'[inflight[c].pk].peserta = Actor(c)]_vars

\* Two clients each got 200 from book_coach for the same coach; the second
\* one wrote over the first one's booking and is the only stored booker.
C4_Witness ==
    \E c, d \in Clients :
        /\ c # d
        /\ inflight[c].op = "done" /\ inflight[c].req = "book_coach"
        /\ inflight[c].status = 200
        /\ inflight[d].op = "done" /\ inflight[d].req = "book_coach"
        /\ inflight[d].status = 200
        /\ inflight[c].pk = inflight[d].pk
        /\ inflight[d].found = Actor(c)
        /\ coaches[inflight[d].pk].isBooked
        /\ coaches[inflight[d].pk].peserta = Actor(d)

\* The session of client c holds a user_id that names no stored user.
StaleSession(c) == "user_id" \in DOMAIN session[c] /\ Actor(c) \notin DOMAIN users

\* A request of client c to one of the protected page views.
ProtectedPage(c) ==
    \/ HomepageView(c) \/ ProfileDisplayView(c) \/ CreateCoachPage(c)
    \/ CoachShowMain(c) \/ CourtShowMain(c) \/ GetAllCourt(c, "GET") \/ ShowPost(c)

\* C8 as stated: a protected view called with a session whose user_id names
\* no user answers as for an anonymous caller (redirect or 401) and the session
\* no longer contains user_id afterwards.
C8_AsStated ==
    [][\A c \in Clients :
          (StaleSession(c) /\ resp'.c = c /\ ProtectedPage(c)) =>
              /\ resp'.status \in {302, 401}
              /\ "user_id" \notin DOMAIN session'[c]]_vars

\* C10 as stated: a login POST with the email of a stored user and the
\* matching password answers success and leaves the six keys of that user in
\* the session.
C10_AsStated ==
    [][\A c \in Clients, u \in UserIds, p \in Passwords :
          (/\ u \in DOMAIN users /\ check_password(p, users[u].password)
           /\ resp'.c = c
           /\ LoginView(c, "POST", <<[email |-> <<EmailOf(u)>>, password |-> <<p>>]>>)) =>
              /\ resp'.status = 200 /\ resp'.msg = "Login berhasil"
              /\ \A k \in SessionKeys : k \in DOMAIN session'[c] /\ session'[c][k] = u]_vars

\* C11: a login POST whose email names no stored user, or whose password is
\* not the one the stored user's hash was made from, is answered 200 with
\* 'Email atau password salah' and changes no session (nor anything else).
C11_FailedLoginKeepsSession ==
    [][\A c \in Clients, u \in UserIds \cup {GhostId}, p \in Passwords :
          (/\ resp'.op = "login_view" /\ resp'.c = c
           /\ \A v \in UsersByEmail(EmailOf(u)) : users[v].password # make_password(p)
           /\ LoginView(c, "POST", <<[email |-> <<EmailOf(u)>>, password |-> <<p>>]>>)) =>
              /\ resp'.status = 200
              /\ resp'.msg = "Email atau password salah"
              /\ session' = session
              /\ users' = users]_vars

\* C11 witness: a client without a session was refused by login_view and
\* still has no session key.
C11_Witness ==
    /\ resp.op = "login_view" /\ resp.msg = "Email atau password salah"
    /\ resp.c \in Clients
    /\ session[resp.c] = Anonymous
\* The rules the register contract lists for the fields of a body: all seven
\* fields non-empty, '@' in the email, gender L or P, a YYYY-MM-DD date, a
\* digits-only phone, matching passwords of length 8 or more.
FieldsValid(data) ==
    /\ Truthy(data.nama) /\ Truthy(data.email) /\ Truthy(data.kelamin)
    /\ Truthy(data.tanggal_lahir) /\ Truthy(data.nomor_handphone)
    /\ Truthy(data.password) /\ Truthy(data.password2)
    /\ HasAt(data.email[1])
    /\ data.kelamin[1] \in {"L", "P"}
    /\ DateParses(data.tanggal_lahir[1])
    /\ DigitsOnly(data.nomor_handphone[1])
    /\ data.password[1] = data.password2[1]
    /\ Len(data.password[1]) >= 8

ValidRegisterBodies == {b \in RegisterBodies \ {<<>>} : FieldsValid(b[1])}

\* C12 as stated: a register POST whose fields are all valid and whose email
\* is not registered answers success ('Registrasi berhasil', redirect to
\* /login/) and leaves exactly one user with that email, whose stored password
\* is the hash of the plaintext and not the plaintext.
C12_AsStated ==
    [][\A c \in Clients, body \in ValidRegisterBodies :
          (/\ resp'.op = "register_view" /\ resp'.c = c
           /\ UsersByEmail(body[1].email[1]) = {}
           /\ RegisterView(c, "POST", body)) =>
              /\ resp'.status = 200 /\ resp'.msg = "Registrasi berhasil"
              /\ Cardinality({u \in DOMAIN users' :
                                 users'[u].email = body[1].email[1]}) = 1
              /\ \A u \in DOMAIN users' :
                    users'[u].email = body[1].email[1] =>
                        users'[u].password = make_password(body[1].password[1])]_vars

\* The answer to a refused registration: 200, success false, same user store.
RefusedRegistration ==
    /\ resp'.status = 200
    /\ resp'.msg # "Registrasi berhasil"
    /\ users' = users

\* C13 as stated: a register POST that breaks any rule of the contract (a
\* field missing, null or empty - the email included -, no '@', bad gender,
\* malformed date, non-digit phone, password mismatch or shorter than 8,
\* email already registered) is answered 200 with success false and the user
\* store is unchanged. (Stated contrapositively: a register step that is not
\* such an answer was not made with a rule-breaking body.)
C13_AsStated ==
    [][(resp'.op = "register_view" /\ ~RefusedRegistration) =>
          \A c \in Clients, body \in RegisterBodies \ {<<>>} :
              (~FieldsValid(body[1]) \/ UsersByEmail(body[1].email[1]) # {}) =>
                  ~(resp'.c = c /\ RegisterView(c, "POST", body))]_vars
\* The body of a create_booking request for a court and a day.
BookingBody(ct, d) == <<[court_id |-> <<ct>>, date |-> <<<<d>>>>]>>

\* C14: create_booking(court, date) by an authenticated user, in every state
\* the two Court views can produce: when a slot of that date exists and is
\* unavailable the call answers 400 and no slot changes; otherwise (no slot, or
\* an available one) it answers 200 and leaves exactly one slot for the date,
\* with is_available false, the other dates' slots being untouched. So a
\* second booking of the same court and date is answered 400.
C14_BookingOncePerDate ==
    [][\A c \in Clients, ct \in CourtIds, d \in Dates :
          (/\ resp'.op = "create_booking" /\ resp'.c = c
           /\ Resolves(c)
           /\ CreateBooking(c, "POST", BookingBody(ct, d))) =>
              IF \E r \in SlotsOf(slots, ct, d) : ~r.is_available
              THEN resp'.status = 400 /\ slots' = slots
              ELSE /\ resp'.status = 200
                   /\ SlotsOf(slots', ct, d)
                          = {TimeSlot(ct, d, FullDayStart, FullDayEnd, FALSE)}
                   /\ slots' \ SlotsOf(slots', ct, d) = slots \ SlotsOf(slots, ct, d)]_vars

\* C14 witness: a user's booking was refused for a date whose slot the views
\* had made unavailable before.
C14_Witness ==
    /\ resp.op = "create_booking" /\ resp.status = 400
    /\ resp.msg = "That date has already been booked"
    /\ resp.c \in Clients /\ Resolves(resp.c)
    /\ \E d \in Dates :
          SlotsOf(slots, resp.pk, d) = {TimeSlot(resp.pk, d, FullDayStart, FullDayEnd, FALSE)}

\* C15 as stated: set_availability(court, date, flag) is refused with 403 and
\* changes no slot for an authenticated user who is not the owner; for the
\* owner, whatever rows are stored for (court, date) - none, one, several with
\* different start times -, it answers 200 and afterwards exactly one row
\* exists for (court, date), 00:00-23:59, with is_available as requested.
C15_AsStated ==
    [][\A c \in Clients, ct \in CourtIds, d \in Dates, a \in {"True", "False"} :
          (/\ resp'.op = "set_availability" /\ resp'.c = c
           /\ Resolves(c)
           /\ SetAvailability(c, ct, "POST",
                              <<[date |-> <<<<d>>>>, is_available |-> <<a>>]>>)) =>
              IF Actor(c) # CourtTable[ct].created_by
              THEN resp'.status = 403 /\ slots' = slots
              ELSE /\ resp'.status = 200
                   /\ SlotsOf(slots', ct, d)
                          = {TimeSlot(ct, d, FullDayStart, FullDayEnd, a = "True")}]_vars

\* The body of a join request for a schedule.
JoinBody(sc) == <<[schedule_id |-> <<sc>>]>>

\* Every stored (event, user, schedule) triple has one row.
RegistrationsUnique ==
    \A r \in BagToSet(registrations) : CopiesIn(r, registrations) = 1

\* C16: after any sequence of join and cancel requests at most one
\* EventRegistration row exists per (event, user, schedule), and a join, on the
\* AJAX or the JSON endpoint, by a user who already has a row for that event
\* and schedule is answered 400 and creates nothing.
C16_RegistrationUnique ==
    /\ []RegistrationsUnique
    /\ [][(/\ resp'.op \in {"ajax_join_event", "json_join_event"}
           /\ resp'.pk \in EventIds
           /\ Resolves(resp'.c)) =>
              \A sc \in DOMAIN ScheduleTable :
                  (/\ BagIn(EventRegistration(resp'.pk, Actor(resp'.c), sc), registrations)
                   /\ \/ AjaxJoinEvent(resp'.c, resp'.pk, "POST", JoinBody(sc))
                      \/ JsonJoinEvent(resp'.c, resp'.pk, "POST", JoinBody(sc))) =>
                      resp'.status = 400 /\ registrations' = registrations]_vars

\* C16 witness: a second join of the same schedule was refused, the first
\* registration being the user's only row for it.
C16_Witness ==
    /\ resp.op \in {"ajax_join_event", "json_join_event"}
    /\ resp.status = 400
    /\ resp.msg \in {"Already registered", "Already registered for this date"}
    /\ resp.c \in Clients /\ Resolves(resp.c)
    /\ \E r \in BagToSet(registrations) :
          r.event = resp.pk /\ r.user = Actor(resp.c) /\ CopiesIn(r, registrations) = 1

\* The rows that are not registrations of a user for an event, with their copies.
OtherRegistrations(regs, event, user) ==
    WithoutRows(regs, RegistrationsOf(regs, event, user))

\* C17: a cancel request (AJAX or JSON) of an authenticated user for an event
\* where they hold registrations answers 200, reports the number of those
\* registrations, leaves none of them, and keeps every registration of other
\* users and of other events; with no registration it answers 400 and changes
\* nothing.
C17_CancelRemovesAllOfActor ==
    [][(/\ resp'.op \in {"ajax_cancel_registration", "json_cancel_event"}
        /\ resp'.pk \in EventIds
        /\ Resolves(resp'.c)
        /\ \/ AjaxCancelRegistration(resp'.c, resp'.pk, "POST")
           \/ JsonCancelEvent(resp'.c, resp'.pk, "POST")) =>
           LET mine == RegistrationsOf(registrations, resp'.pk, Actor(resp'.c)) IN
           IF mine = {}
           THEN resp'.status = 400 /\ registrations' = registrations
           ELSE /\ resp'.status = 200
                /\ resp'.count = Cardinality(mine)
                /\ RegistrationsOf(registrations', resp'.pk, Actor(resp'.c)) = {}
                /\ registrations'
                       = OtherRegistrations(registrations, resp'.pk, Actor(resp'.c))
                /\ \A r \in BagToSet(registrations) \ mine :
                       CopiesIn(r, registrations') = CopiesIn(r, registrations)]_vars

\* C17 witness: a cancel removed the user's registrations of two schedules of
\* one event, while another user's registration for that event and the user's
\* own registration for another event are still stored.
C17_Witness ==
    /\ resp.op \in {"ajax_cancel_registration", "json_cancel_event"}
    /\ resp.status = 200 /\ resp.count = 2
    /\ resp.c \in Clients /\ Resolves(resp.c)
    /\ RegistrationsOf(registrations, resp.pk, Actor(resp.c)) = {}
    /\ \E r \in BagToSet(registrations) : r.event = resp.pk /\ r.user # Actor(resp.c)
    /\ \E r \in BagToSet(registrations) : r.event # resp.pk /\ r.user = Actor(resp.c)

\* C18 as stated: a toggle request, on the AJAX or the JSON endpoint, by an
\* authenticated user who is not the event's organizer never changes the
\* event's status; by the organizer with a boolean is_available it sets the
\* status to 'available' or 'unavailable' accordingly.
C18_AsStated ==
    [][(/\ resp'.op \in {"ajax_toggle_availability", "json_toggle_availability"}
        /\ resp'.pk \in EventIds
        /\ Resolves(resp'.c)) =>
           \A body \in ToggleBodies :
               (\/ AjaxToggleAvailability(resp'.c, resp'.pk, "POST", body)
                \/ JsonToggleAvailability(resp'.c, resp'.pk, "POST", body)) =>
                   IF events[resp'.pk].organizer # Actor(resp'.c)
                   THEN events'[resp'.pk].status = events[resp'.pk].status
                   ELSE (body # <<>> /\ body[1].is_available # <<>>) =>
                            events'[resp'.pk].status = IF body[1].is_available[1]
                                                       THEN "available" ELSE "unavailable"]_vars

\* The creator of a post is no participant of it, and every stored
\* (post, participant) pair has one row.
ParticipantsWellFormed ==
    \A r \in BagToSet(participants) :
        /\ CopiesIn(r, participants) = 1
        /\ r.participant # PostTable[r.post_id].creator

\* C19: a join by the post's creator fails and a join by a participant fails,
\* both writing nothing; any other join by a user succeeds and inserts the one
\* row (post, actor), every other row being kept. Hence in every reachable
\* state no creator participates in their own post and no pair has two rows.
C19_JoinOutcomes ==
    /\ []ParticipantsWellFormed
    /\ [][(/\ resp'.op = "join_post"
           /\ PartnerLoaded(resp'.c, resp'.pk, "POST")
           /\ JoinPost(resp'.c, resp'.pk, "POST")) =>
              IF \/ PostTable[resp'.pk].creator = Actor(resp'.c)
                 \/ is_participant(participants, resp'.pk, Actor(resp'.c))
              THEN ~resp'.success /\ participants' = participants
              ELSE /\ resp'.success
                   /\ participants'
                          = participants
                              (+) SetToBag({PostParticipants(resp'.pk, Actor(resp'.c))})]_vars

\* C19 witness: a participant's second join was refused and their one row is
\* still stored.
C19_Witness ==
    /\ resp.op = "join_post" /\ ~resp.success
    /\ resp.msg = "Anda sudah join post ini"
    /\ CopiesIn(PostParticipants(resp.pk, Actor(resp.c)), participants) = 1

\* C20: a leave by a user answers success whether or not they participate,
\* removes exactly their row, changes nothing when they have none, and a
\* second leave right after the first reports the same total and leaves the
\* same participants.
C20_LeaveIdempotent ==
    [][(/\ resp'.op = "leave_post"
        /\ PartnerLoaded(resp'.c, resp'.pk, "POST")
        /\ LeavePost(resp'.c, resp'.pk, "POST")) =>
           /\ resp'.success
           /\ ~is_participant(participants', resp'.pk, Actor(resp'.c))
           /\ \A r \in BagToSet(participants) :
                  r # PostParticipants(resp'.pk, Actor(resp'.c)) =>
                      CopiesIn(r, participants') = CopiesIn(r, participants)
           /\ ~is_participant(participants, resp'.pk, Actor(resp'.c)) =>
                  participants' = participants
           /\ (/\ resp.op = "leave_post" /\ resp.success
               /\ resp.c = resp'.c /\ resp.pk = resp'.pk) =>
                  /\ participants' = participants
                  /\ resp'.total_participants = resp.total_participants]_vars

\* C20 witness: a user who is no participant of the post left it with
\* success while another user's row for that post is stored.
C20_Witness ==
    /\ resp.op = "leave_post" /\ resp.success
    /\ resp.total_participants = <<1>>
    /\ ~is_participant(participants, resp.pk, Actor(resp.c))

\* The answers that are no response of the view: the exception left it.
EscapedView(r) == r.status = 500 /\ r.msg = "raised User.DoesNotExist"

\* C21 as stated: whatever the request (no session, a user_id of no user, a
\* missing post), join_post and leave_post return a response of their own and
\* no exception leaves the view.
C21_AsStated ==
    resp.op \in {"join_post", "leave_post"} => ~EscapedView(resp)

\* C22 as stated: a mark_unavailable by the owner sets isBooked = TRUE and
\* changes nothing else of the coach: no booker is assigned, a booker that is
\* set stays.
C22_AsStated ==
    [][\A c \in Clients, pk \in CoachIds :
          (/\ Resolves(c) /\ pk \in DOMAIN coaches
           /\ Actor(c) = coaches[pk].user
           /\ IsMarkUnavailable(c, pk, "POST")) =>
              coaches' = [coaches EXCEPT ![pk].isBooked = TRUE]]_vars

\* C27 as stated: once the owner's mark_unavailable has succeeded on a coach
\* booked by u, the next cancel by u succeeds and leaves the coach with
\* isBooked = FALSE and no booker, that is bookable again.
C27_AsStated ==
    [][\A c \in Clients, pk \in CoachIds :
          (/\ resp.op = "mark_unavailable" /\ resp.status = 200 /\ resp.pk = pk
           /\ Resolves(c) /\ pk \in DOMAIN coaches
           /\ coaches[pk].peserta = Actor(c)
           /\ IsCancel(c, pk, "POST")) =>
              /\ resp'.status = 200
              /\ ~coaches'[pk].isBooked
              /\ coaches'[pk].peserta = None]_vars

\* C28: a date of a court that is unavailable becomes available again only
\* by a set_availability of the court's creator that succeeded, or by the
\* deletion of the court; no request of another user, the one who booked
\* included, frees it.
C28_OnlyCreatorFrees ==
    [][\A ct \in CourtIds, d \in Dates :
          (/\ ~DateAvailable(slots, ct, d)
           /\ DateAvailable(slots', ct, d)) =>
              /\ resp'.status = 200 /\ resp'.pk = ct
              /\ resp'.op \in {"set_availability", "delete_court"}
              /\ Resolves(resp'.c)
              /\ Actor(resp'.c) = CourtTable[ct].created_by]_vars

\* C28 witness: another user than the creator asked to make a booked date
\* available and was refused, the date being still unavailable.
C28_Witness ==
    /\ resp.op = "set_availability" /\ resp.status = 403
    /\ resp.c \in Clients /\ Resolves(resp.c)
    /\ resp.pk \in courts
    /\ Actor(resp.c) # CourtTable[resp.pk].created_by
    /\ \E d \in Dates : ~DateAvailable(slots, resp.pk, d)

\* C29 as stated: of the create_booking requests of two clients for the same
\* court and date, which no request has made available in between, at most one
\* is answered with success.
C29_AsStated ==
    \A c, d \in Clients :
        (/\ c # d
         /\ inflight[c].op = "done" /\ inflight[c].req = "create_booking"
         /\ inflight[d].op = "done" /\ inflight[d].req = "create_booking"
         /\ inflight[c].pk = inflight[d].pk /\ inflight[c].date = inflight[d].date)
        => ~(inflight[c].status = 200 /\ inflight[d].status = 200)

\* C23: in every reachable state, under every interleaving of add, update,
\* book, cancel, mark_available and mark_unavailable requests, the booker of a
\* stored coach is not its owner.
C23_BookerNotOwner ==
    \A pk \in DOMAIN coaches :
        coaches[pk].peserta # None => coaches[pk].peserta # coaches[pk].user

\* C23 witness: a coach is booked and its owner's own book was refused.
C23_Witness ==
    /\ resp.op = "book_coach" /\ resp.msg = "Cannot book your own coach"
    /\ resp.pk \in DOMAIN coaches
    /\ Actor(resp.c) = coaches[resp.pk].user
    /\ coaches[resp.pk].peserta # None

\* C24: in every reachable state, under every interleaving of book, cancel,
\* mark_available, mark_unavailable and update requests that load the row and
\* later write all of it, a coach with a booker has isBooked = TRUE.
C24_BookerImpliesBooked ==
    \A pk \in DOMAIN coaches :
        coaches[pk].peserta # None => coaches[pk].isBooked

\* C24 witness: the owner's update or mark_unavailable has been written on a
\* coach that holds a booker, while another client's book is between its load
\* and its save.
C24_Witness ==
    /\ resp.op \in {"update_coach", "mark_unavailable"} /\ resp.status = 200
    /\ resp.pk \in DOMAIN coaches
    /\ coaches[resp.pk].peserta # None
    /\ \E c \in Clients : inflight[c].op = "book_coach"

\* C25 as stated: a recorded booking (peserta = u, isBooked = TRUE) stays
\* recorded while the coach is stored, until a cancel by u or a
\* mark_available completes, also when an update_coach or a mark_unavailable
\* of the owner writes back the row it loaded before the booking.
C25_AsStated ==
    [][\A pk \in CoachIds :
          (/\ pk \in DOMAIN coaches /\ pk \in DOMAIN coaches'
           /\ coaches[pk].peserta # None /\ coaches[pk].isBooked
           /\ ~(coaches'[pk].peserta = coaches[pk].peserta /\ coaches'[pk].isBooked))
          => /\ resp'.status = 200 /\ resp'.pk = pk
             /\ \/ resp'.op = "mark_available"
                \/ resp'.op = "cancel_booking" /\ Actor(resp'.c) = coaches[pk].peserta]_vars

\* The views that record or release a booking.
BookingOps == {"book_coach", "cancel_booking", "mark_available", "mark_unavailable"}

====
